---- MODULE Spec2Model ----
(***************************************************************************)
(* A model of the stylized styling engine: the deep-merge utility, the     *)
(* global theme store (getSnapshot / subscribe / setTheme) and the rule    *)
(* builder with its per-theme LRU cache.                                   *)
(*                                                                         *)
(* JavaScript objects live in a heap: `heap` is a sequence of cells and an *)
(* object reference is the index of its cell, so that reference equality   *)
(* (===) and value equality are two different things in the model, as      *)
(* they are in the program.                                                *)
(***************************************************************************)
EXTENDS Integers, Sequences, FiniteSets, TLC

VARIABLES
    heap,          \* the JavaScript heap: Seq of cells [kind, f, e]
    currentTheme,  \* store/index.ts: _currentTheme (a reference into heap)
    listeners,     \* store/index.ts: listeners (a Set, in insertion order)
    subs,          \* per listener: subscribe calls since its last unsubscribe
                   \* (0: never subscribed, -1: unsubscribed)
    call,          \* the setTheme call in progress, or the last one finished
    mBase,         \* deep-merge harness: the base argument
    mPartial,      \* deep-merge harness: the partial argument
    mOut,          \* deep-merge harness: the results obtained so far
    mHeap0,        \* deep-merge harness: the heap before the first merge
    platform,      \* Platform.OS
    rules,         \* StylizedBuilder.rules
    cacheByTheme,  \* StylizedBuilder.cacheByTheme: theme object -> LRU cache
    results,       \* the result objects {computedStyle, attrs} created so far
    memo,          \* the mounted component's useMemo cell
    last,          \* the last render: what it was given and what it obtained
    lru,           \* a stand-alone LRUCache: its Map, in insertion order
    lruLimit,      \* a stand-alone LRUCache: its limit
    lruUse,        \* the keys used so far, the least recently used first
    lruOp,         \* the last operation on the stand-alone cache
    builders,      \* the StylizedBuilder objects made so far
    components,    \* the components build() returned, each behind its proxy
    made,          \* the result objects of the builders, with their origin
    renders,       \* the renders of the components so far
    proxyOp        \* the last call made through a proxy

vars ==
    <<heap, currentTheme, listeners, subs, call, mBase, mPartial, mOut, mHeap0,
      platform, rules, cacheByTheme, results, memo, last,
      lru, lruLimit, lruUse, lruOp,
      builders, components, made, renders, proxyOp>>

harnessVars == <<mBase, mPartial, mOut, mHeap0>>

engineVars == <<platform, rules, cacheByTheme, results, memo, last>>

cacheVars == <<lru, lruLimit, lruUse, lruOp>>

proxyVars == <<builders, components, made, renders, proxyOp>>

(***************************************************************************)
(* JavaScript values.  Every value is a record of the same shape, so that  *)
(* any two values can be compared: a primitive carries its type tag and    *)
(* its string form, a reference carries the address of its heap cell.      *)
(***************************************************************************)
Undef == [t |-> "undef", v |-> "undefined", a |-> 0]
Null == [t |-> "null", v |-> "null", a |-> 0]
Num(s) == [t |-> "num", v |-> s, a |-> 0]
Str(s) == [t |-> "str", v |-> s, a |-> 0]
Bool(s) == [t |-> "bool", v |-> s, a |-> 0]
Ref(n) == [t |-> "ref", v |-> "[object Object]", a |-> n]

EmptyF == [k \in {} |-> Undef]

\* JavaScript truthiness (!!v).
Truthy(v) ==
    CASE v.t = "ref" -> TRUE
      [] v.t = "num" -> v.v # "0"
      [] v.t = "str" -> v.v # ""
      [] v.t = "bool" -> v.v = "true"
      [] OTHER -> FALSE

\* typeof v === 'object' (true of null as well).
TypeofObject(v) == v.t \in {"ref", "null"}

\* Array.isArray(v)
IsArray(h, v) == v.t = "ref" /\ h[v.a].kind = "arr"

\* o[key]: undefined when the key is absent.
Get(h, o, key) ==
    IF o.t = "ref" /\ key \in DOMAIN h[o.a].f THEN h[o.a].f[key] ELSE Undef

\* The order in which `for (const key in o)` meets the keys: one fixed order
\* of all the key names of the model (object identities do not depend on it).
KeyOrder == <<"colors", "k", "primary", "secondary", "shade">>

InKeys(f, k) == k \in DOMAIN f

KeysOf(h, o) == SelectSeq(KeyOrder, LAMBDA k : InKeys(h[o.a].f, k))

\* result[key] = v
Write(h, r, key, v) ==
    LET old == h[r].f
    IN  [h EXCEPT ![r].f =
            [k \in DOMAIN old \cup {key} |-> IF k = key THEN v ELSE old[k]]]

(***************************************************************************)
(* deepMerge (theme/store/helpers.ts).                                     *)
(***************************************************************************)
\* A fault for the checks below: the merge writes into base itself.
NewResultInPlace(h, base) == [h |-> h, r |-> base.a]

\* const result = Array.isArray(base) ? [...base] : { ...base }
NewResult(h, base) ==
    LET cell == IF base.t # "ref" THEN [kind |-> "obj", f |-> EmptyF, e |-> <<>>]
                ELSE IF h[base.a].kind = "arr"
                     THEN [kind |-> "arr", f |-> h[base.a].f, e |-> h[base.a].e]
                     ELSE [kind |-> "obj", f |-> h[base.a].f, e |-> <<>>]
    IN  [h |-> Append(h, cell), r |-> Len(h) + 1]

\* A fault for the checks below: the copy is returned whether or not a key
\* changed.
MergeReturnAlwaysCopy(mutated, r, base) == Ref(r)

\* return mutated ? result : base
MergeReturn(mutated, r, base) == IF mutated THEN Ref(r) ELSE base

\* A fault for the checks below: arrays are merged like objects.
BothObjectsArraysToo(h, pv, bv) ==
    /\ Truthy(pv)
    /\ Truthy(bv)
    /\ TypeofObject(pv)
    /\ TypeofObject(bv)

\* The test that sends a key into the recursive merge.
BothPlainObjects(h, pv, bv) ==
    /\ Truthy(pv)
    /\ Truthy(bv)
    /\ TypeofObject(pv)
    /\ TypeofObject(bv)
    /\ ~IsArray(h, pv)
    /\ ~IsArray(h, bv)

\* A fault for the checks below: an array is appended to the base's array.
AssignConcatArrays(h, r, key, pv, bv) ==
    IF IsArray(h, pv) /\ IsArray(h, bv)
    THEN Write(Append(h, [kind |-> "arr", f |-> EmptyF,
                          e |-> h[bv.a].e \o h[pv.a].e]),
               r, key, Ref(Len(h) + 1))
    ELSE Write(h, r, key, pv)

\* result[key] = partialValue (primitives, arrays, null, a kind mismatch)
AssignOutright(h, r, key, pv, bv) == Write(h, r, key, pv)

RECURSIVE DeepMerge(_, _, _)
RECURSIVE MergeKeys(_, _, _, _, _, _)

\* The body of `for (const key in partial)`, over the keys still to visit.
MergeKeys(h, base, partial, r, ks, mutated) ==
    IF ks = <<>> THEN [h |-> h, mutated |-> mutated]
    ELSE
      LET key == Head(ks)
          pv == Get(h, partial, key)
          bv == Get(h, base, key)
      IN  IF pv = bv THEN MergeKeys(h, base, partial, r, Tail(ks), mutated)
          ELSE IF BothPlainObjects(h, pv, bv)
          THEN LET m == DeepMerge(h, bv, pv)
               IN  IF m.v # bv
                   THEN MergeKeys(Write(m.h, r, key, m.v), base, partial, r,
                                  Tail(ks), TRUE)
                   ELSE MergeKeys(m.h, base, partial, r, Tail(ks), mutated)
          ELSE MergeKeys(AssignOutright(h, r, key, pv, bv), base, partial, r,
                         Tail(ks), TRUE)

\* deepMerge(base, partial): the heap after the call and the value returned.
DeepMerge(h, base, partial) ==
    IF partial = base THEN [h |-> h, v |-> base]
    ELSE IF ~Truthy(partial) THEN [h |-> h, v |-> base]
    ELSE IF ~Truthy(base) THEN [h |-> h, v |-> partial]
    ELSE IF ~TypeofObject(partial) THEN [h |-> h, v |-> partial]
    ELSE
      LET n == NewResult(h, base)
          st == MergeKeys(n.h, base, partial, n.r, KeysOf(n.h, partial), FALSE)
      IN  [h |-> st.h, v |-> MergeReturn(st.mutated, n.r, base)]

(***************************************************************************)
(* Object literals: what a caller writes down, before it is an object in   *)
(* the heap.  LSame stands for an expression that reads the value from the *)
(* same place of the previous theme (prev => ({colors: prev.colors})).     *)
(***************************************************************************)
LPrim(v) == [t |-> "prim", p |-> v, o |-> EmptyF, e |-> <<>>]
LObj(f) == [t |-> "obj", p |-> Undef, o |-> f, e |-> <<>>]
LArr(s) == [t |-> "arr", p |-> Undef, o |-> EmptyF, e |-> s]
LSame == [t |-> "same", p |-> Undef, o |-> EmptyF, e |-> <<>>]

RECURSIVE Alloc(_, _, _)
RECURSIVE AllocFields(_, _, _, _, _)

AllocFields(h, o, ks, bv, acc) ==
    IF ks = <<>> THEN [h |-> h, f |-> acc]
    ELSE LET k == Head(ks)
             c == Alloc(h, o[k], Get(h, bv, k))
         IN  AllocFields(c.h, o, Tail(ks), bv, acc @@ (k :> c.v))

\* Evaluating the literal `lit` where `bv` is the previous theme's value at
\* the same place: the heap afterwards and the value obtained.
Alloc(h, lit, bv) ==
    CASE lit.t = "prim" -> [h |-> h, v |-> lit.p]
      [] lit.t = "same" -> [h |-> h, v |-> bv]
      [] lit.t = "arr" ->
            [h |-> Append(h, [kind |-> "arr", f |-> EmptyF, e |-> lit.e]),
             v |-> Ref(Len(h) + 1)]
      [] OTHER ->
            LET st == AllocFields(h, lit.o,
                          SelectSeq(KeyOrder, LAMBDA k : InKeys(lit.o, k)),
                          bv, EmptyF)
            IN  [h |-> Append(st.h, [kind |-> "obj", f |-> st.f, e |-> <<>>]),
                 v |-> Ref(Len(st.h) + 1)]

\* The contents of a value, read through the heap, with every own key.
RECURSIVE Reify(_, _)
Reify(h, v) ==
    IF v.t # "ref" THEN LPrim(v)
    ELSE IF h[v.a].kind = "arr" THEN LArr(h[v.a].e)
    ELSE LET f == h[v.a].f
         IN  LObj([k \in DOMAIN f |-> Reify(h, f[k])])

\* The same, where an array is told by its identity and not by its elements.
RECURSIVE ReifyId(_, _)
ReifyId(h, v) ==
    IF v.t # "ref" THEN LPrim(v)
    ELSE IF h[v.a].kind = "arr" THEN LPrim(v)
    ELSE LET f == h[v.a].f
         IN  LObj([k \in DOMAIN f |-> ReifyId(h, f[k])])

\* Contents up to what a property read can tell: a key whose value is
\* undefined reads like an absent key and is left out.
RECURSIVE Norm(_)
Norm(l) ==
    IF l.t # "obj" THEN l
    ELSE LObj([k \in {x \in DOMAIN l.o : l.o[x] # LPrim(Undef)} |-> Norm(l.o[k])])

\* Value equality of two values, each read through its heap.
ValueEqual(h1, v1, h2, v2) == Norm(Reify(h1, v1)) = Norm(Reify(h2, v2))

(***************************************************************************)
(* The inputs of the model.                                                *)
(***************************************************************************)
Blue == Str("#007AFF")
Red == Str("#FF3B30")

\* [k1 |-> v1, ...] for the keys whose entry is not "absent".
Absent == [t |-> "absent", p |-> Undef, o |-> EmptyF, e |-> <<>>]
Fields(f) == [k \in {x \in DOMAIN f : f[x] # Absent} |-> f[k]]

ShadeLits == {LObj(Fields([shade |-> s])) : s \in {LPrim(Blue), LPrim(Red)}}

PrimaryLits == {Absent, LPrim(Blue), LPrim(Red), LPrim(Undef)} \cup ShadeLits

ColorObjLits ==
    {LObj(Fields([primary |-> p, secondary |-> s])) :
        p \in PrimaryLits, s \in {Absent, LPrim(Blue)}}

ColorsLits ==
    ColorObjLits \cup
    {Absent, LPrim(Null), LPrim(Blue), LArr(<<Blue>>), LArr(<<Red>>)}

KLits == {Absent, LPrim(Num("1")), LPrim(Num("2")), LPrim(Null)}

\* Theme objects a program can build.
ThemeLits == {LObj(Fields([colors |-> c, k |-> n])) : c \in ColorsLits, n \in KLits}

\* Partial updates: the same, or a value taken over from the base.
PartialLits ==
    {LObj(Fields([colors |-> c, k |-> n])) :
        c \in ColorsLits \cup {LSame}, n \in KLits \cup {LSame}}

(***************************************************************************)
(* The theme store (react-native/src/theme/store/index.ts).                *)
(***************************************************************************)
\* The most setTheme calls of one behaviour.
MaxUpdates == 2

\* The callbacks that code outside the store subscribes.
Listeners == {"A", "B"}

\* The most subscribe calls of one listener without an unsubscribe.
MaxSubscribes == 2

\* A leaf of an updater's result that depends on the previous theme:
\* prev.colors.primary === '#007AFF' ? '#FF3B30' : '#007AFF'
LToggle == [t |-> "toggle", p |-> Undef, o |-> EmptyF, e |-> <<>>]

\* What setTheme is called with: an object (fn = FALSE) or an updater
\* function prev => lit (fn = TRUE).
StoreInputs ==
    {[fn |-> FALSE, lit |-> l] :
        l \in {LObj(EmptyF),
               LObj([colors |-> LObj([primary |-> LPrim(Blue)])]),
               LObj([colors |-> LObj([primary |-> LPrim(Red)])]),
               LObj([colors |-> LObj([secondary |-> LPrim(Blue)]),
                     k |-> LPrim(Num("1"))]),
               LObj([colors |-> LArr(<<Blue>>)]),
               LObj([k |-> LPrim(Num("1"))])}}
    \cup
    {[fn |-> TRUE, lit |-> l] :
        l \in {LSame,
               LObj([colors |-> LSame, k |-> LPrim(Num("1"))]),
               LObj([colors |-> LObj([primary |-> LToggle])])}}

NoInput == [fn |-> FALSE, lit |-> LPrim(Undef)]

\* No setTheme call has been made yet.  The fields inner, innerPre and
\* innerRet are those of a setTheme call made while this one is under way:
\* its input, the contents of the snapshot it read and what it returned.
StoreIdle ==
    [pc |-> "idle", n |-> 0, input |-> NoInput, prev |-> Undef, arg |-> Undef,
     partial |-> Undef, pre |-> LPrim(Undef), atEntry |-> <<>>, i |-> 0,
     count |-> [l \in Listeners |-> 0], seen |-> [l \in Listeners |-> Undef],
     seenContent |-> [l \in Listeners |-> LPrim(Undef)],
     ret |-> Undef, returned |-> FALSE,
     inner |-> NoInput, innerPre |-> LPrim(Undef), innerRet |-> Undef]

\* const defaultTheme = {}; let _currentTheme = defaultTheme; new Set()
InitStoreVars ==
    /\ heap = <<[kind |-> "obj", f |-> EmptyF, e |-> <<>>]>>
    /\ currentTheme = Ref(1)
    /\ listeners = <<>>
    /\ subs = [l \in Listeners |-> 0]
    /\ call = StoreIdle

\* A fault for the checks below: every add makes a new entry.
SetAddAgain(s, l) == Append(s, l)

\* listeners.add(listener); the Set keeps one entry per listener.
SetAdd(s, l) == IF \E j \in 1..Len(s) : s[j] = l THEN s ELSE Append(s, l)

\* listeners.delete(listener)
SetDelete(s, l) == SelectSeq(s, LAMBDA x : x # l)

Members(s) == {s[j] : j \in 1..Len(s)}

\* themeStore.subscribe(listener)
Subscribe(l) ==
    /\ call.pc = "idle"
    /\ subs[l] < MaxSubscribes
    /\ listeners' = SetAdd(listeners, l)
    /\ subs' = [subs EXCEPT ![l] = IF @ > 0 THEN @ + 1 ELSE 1]
    /\ UNCHANGED <<heap, currentTheme, call, harnessVars, engineVars, cacheVars, proxyVars>>

\* The function subscribe returned, called: listeners.delete(listener)
Unsubscribe(l) ==
    /\ call.pc = "idle"
    /\ l \in Members(listeners)
    /\ listeners' = SetDelete(listeners, l)
    /\ subs' = [subs EXCEPT ![l] = -1]
    /\ UNCHANGED <<heap, currentTheme, call, harnessVars, engineVars, cacheVars, proxyVars>>

\* A fault for the checks below: the updater is given the default theme.
UpdaterArgumentDefault(prev) == Ref(1)

\* input(prev): what the updater function is called with.
UpdaterArgument(prev) == prev

\* Evaluating an input's literal against the theme it reads.
RECURSIVE Eval(_, _, _)
RECURSIVE EvalFields(_, _, _, _, _)

EvalFields(h, o, ks, bv, acc) ==
    IF ks = <<>> THEN [h |-> h, f |-> acc]
    ELSE LET k == Head(ks)
             c == Eval(h, o[k], Get(h, bv, k))
         IN  EvalFields(c.h, o, Tail(ks), bv, acc @@ (k :> c.v))

Eval(h, lit, bv) ==
    CASE lit.t = "toggle" -> [h |-> h, v |-> IF bv = Blue THEN Red ELSE Blue]
      [] lit.t = "obj" ->
            LET st == EvalFields(h, lit.o,
                          SelectSeq(KeyOrder, LAMBDA k : InKeys(lit.o, k)),
                          bv, EmptyF)
            IN  [h |-> Append(st.h, [kind |-> "obj", f |-> st.f, e |-> <<>>]),
                 v |-> Ref(Len(st.h) + 1)]
      [] OTHER -> Alloc(h, lit, bv)

\* A fault for the checks below: the partial replaces the theme.
NextSnapshotReplace(h, prev, partial) == [h |-> h, v |-> partial]

\* deepMerge(prev, nextPartial)
NextSnapshot(h, prev, partial) == DeepMerge(h, prev, partial)

\* setTheme(input), lines 50-56: read prev, resolve the partial, merge, store.
SetThemeCall(input) ==
    /\ call.pc = "idle"
    /\ call.n < MaxUpdates
    /\ LET prev == currentTheme
           arg == IF input.fn THEN UpdaterArgument(prev) ELSE prev
           p == Eval(heap, input.lit, arg)
           m == NextSnapshot(p.h, prev, p.v)
       IN  /\ heap' = m.h
           /\ currentTheme' = m.v
           /\ call' = [StoreIdle EXCEPT
                          !.pc = "notify", !.n = call.n + 1, !.input = input,
                          !.prev = prev, !.arg = arg, !.partial = p.v,
                          !.pre = Reify(heap, prev), !.atEntry = listeners]
    /\ UNCHANGED <<listeners, subs, harnessVars, engineVars, cacheVars, proxyVars>>

\* A fault for the checks below: the pass ends after the first listener.
ForEachDoneAfterFirst(i, ls) == i >= 1 \/ i >= Len(ls)

\* listeners.forEach has visited every entry.
ForEachDone(i, ls) == i >= Len(ls)

\* A fault for the checks below: a listener is only invoked when the merge
\* gave a new snapshot.
NotifyIfChanged ==
    /\ call.pc = "notify"
    /\ ~ForEachDone(call.i, listeners)
    /\ LET l == listeners[call.i + 1]
       IN  call' = IF currentTheme = call.prev
                   THEN [call EXCEPT !.i = @ + 1]
                   ELSE [call EXCEPT !.i = @ + 1,
                                     !.count[l] = @ + 1,
                                     !.seen[l] = currentTheme,
                                     !.seenContent[l] = Reify(heap, currentTheme)]
    /\ UNCHANGED <<heap, currentTheme, listeners, subs, harnessVars, engineVars, cacheVars, proxyVars>>

\* listeners.forEach(listener => listener()), one listener: it is counted, and
\* it reads getTheme().
Notify ==
    /\ call.pc = "notify"
    /\ ~ForEachDone(call.i, listeners)
    /\ LET l == listeners[call.i + 1]
       IN  call' = [call EXCEPT !.i = @ + 1,
                                !.count[l] = @ + 1,
                                !.seen[l] = currentTheme,
                                !.seenContent[l] = Reify(heap, currentTheme)]
    /\ UNCHANGED <<heap, currentTheme, listeners, subs, harnessVars, engineVars, cacheVars, proxyVars>>

\* return _currentTheme
Return ==
    /\ call.pc = "notify"
    /\ ForEachDone(call.i, listeners)
    /\ call' = [call EXCEPT !.pc = "idle", !.ret = currentTheme, !.returned = TRUE]
    /\ UNCHANGED <<heap, currentTheme, listeners, subs, harnessVars, engineVars, cacheVars, proxyVars>>

HarnessIdle ==
    /\ mBase = Undef
    /\ mPartial = Undef
    /\ mOut = <<>>
    /\ mHeap0 = <<>>

(***************************************************************************)
(* The context hasher (hash/optimizedHash.ts) and the LRU cache            *)
(* (cache/lru.ts).                                                         *)
(***************************************************************************)
STYLE_HASH_PROPS ==
    <<"variant", "size", "type", "active", "disabled", "focused", "selected">>

\* props[key]
PropGet(props, key) == IF key \in DOMAIN props THEN props[key] ELSE Undef

\* `${val}` of a string, a number or a boolean.
ToStr(v) == v.v

\* A fault for the checks below: every value but undefined is hashed.
IsHashableAny(v) == v.t # "undef"

\* typeof val is 'string', 'number' or 'boolean'
IsHashable(v) == v.t \in {"str", "num", "bool"}

RECURSIVE HashProps(_, _, _)
HashProps(i, props, hash) ==
    IF i > Len(STYLE_HASH_PROPS) THEN hash
    ELSE LET key == STYLE_HASH_PROPS[i]
             val == PropGet(props, key)
         IN  HashProps(i + 1, props,
                 IF val # Undef /\ IsHashable(val)
                 THEN hash \o "|" \o key \o ":" \o ToStr(val)
                 ELSE hash)

\* optimizedHash(ctx)
OptimizedHash(h, ctx) ==
    LET id == Get(h, ctx.theme, "id")
        themeId == IF id \in {Undef, Null} THEN "theme" ELSE ToStr(id)
    IN  HashProps(1, ctx.props, ctx.platform \o "-" \o themeId)

\* new LRUCache(300)
LRULimit == 300

\* The place of key k in the Map (0: not there); the Map is in insertion order.
LRUIndex(c, k) ==
    IF \E j \in 1..Len(c) : c[j].k = k
    THEN CHOOSE j \in 1..Len(c) : c[j].k = k
    ELSE 0

\* map.delete(key)
MapDelete(c, j) == SubSeq(c, 1, j - 1) \o SubSeq(c, j + 1, Len(c))

\* A fault for the checks below: get leaves the entry where it is.
LRUGetInPlace(c, k) ==
    LET j == LRUIndex(c, k)
    IN  IF j = 0 THEN [c |-> c, found |-> FALSE, v |-> 0]
        ELSE [c |-> c, found |-> TRUE, v |-> c[j].v]

\* LRUCache.get(key): the Map afterwards, and the value (found = FALSE: undefined)
LRUGet(c, k) ==
    LET j == LRUIndex(c, k)
    IN  IF j = 0 THEN [c |-> c, found |-> FALSE, v |-> 0]
        ELSE [c |-> Append(MapDelete(c, j), c[j]), found |-> TRUE, v |-> c[j].v]

\* A fault for the checks below: set never stores the entry.
LRUSetNoInsert(c, limit, k, v) == c

\* A fault for the checks below: set never evicts.
LRUSetNoEvict(c, limit, k, v) ==
    LET j == LRUIndex(c, k)
    IN  IF j # 0 THEN Append(MapDelete(c, j), [k |-> k, v |-> v])
        ELSE Append(c, [k |-> k, v |-> v])

\* LRUCache.set(key, value)
LRUSet(c, limit, k, v) ==
    LET j == LRUIndex(c, k)
    IN  IF j # 0 THEN Append(MapDelete(c, j), [k |-> k, v |-> v])
        ELSE IF Len(c) >= limit /\ c # <<>> THEN Append(Tail(c), [k |-> k, v |-> v])
        ELSE Append(c, [k |-> k, v |-> v])

\* LRUCache.clear()
LRUClear(c) == <<>>

\* The keys of the Map.
LRUKeys(c) == {c[j].k : j \in 1..Len(c)}

\* No stand-alone cache is in use.
NoCacheOp == [op |-> "none", k |-> "", v |-> 0, found |-> FALSE, got |-> 0]

CacheIdle ==
    /\ lru = <<>>
    /\ lruLimit = LRULimit
    /\ lruUse = <<>>
    /\ lruOp = NoCacheOp

\* No builder was made through stylized().
NoProxyOp == [op |-> "none", builder |-> 0]

ProxyIdle ==
    /\ builders = <<>>
    /\ components = <<>>
    /\ made = <<>>
    /\ renders = <<>>
    /\ proxyOp = NoProxyOp

(***************************************************************************)
(* The rule builder (react-native/src/engine/styled-engine.tsx).           *)
(***************************************************************************)
\* The most rules of a builder, and the most renders of one behaviour.
MaxRules == 1
MaxRenders == 2

\* The most setTheme calls while the component is mounted.
MaxThemeUpdates == 1

Platforms == {"ios", "android"}

\* A condition string is kept as its pieces between the ':' signs:
\* 'size:1' is <<"size", "1">> and 'active' is <<"active">>.
RECURSIVE Join(_)
Join(segs) ==
    IF Len(segs) = 1 THEN segs[1] ELSE segs[1] \o ":" \o Join(Tail(segs))

NoCondition == [fn |-> FALSE, name |-> "", segs |-> <<>>]
CondString(segs) == [fn |-> FALSE, name |-> "", segs |-> segs]
CondFn(name) == [fn |-> TRUE, name |-> name, segs |-> <<>>]

\* A boolean literal given as the condition: when(true, ...), when(false, ...)
CondBool(b) == [fn |-> FALSE, name |-> b, segs |-> <<>>]

\* Line 31 on a condition that is neither a function nor a string:
\* condition.includes is not a function, a TypeError.
ConditionThrows(cond) == ~cond.fn /\ cond.segs = <<>>

\* A condition function, called with the context.
\*   isOne: ({ props }) => props.size === 1
CallCondition(name, h, ctx) == PropGet(ctx.props, "size") = Num("1")

\* A fault for the checks below: a platform tag is read as a prop name.
EvaluateConditionPropsOnly(cond, h, ctx) ==
    IF cond.fn THEN CallCondition(cond.name, h, ctx)
    ELSE IF Len(cond.segs) > 1
         THEN PropGet(ctx.props, cond.segs[1]) = Str(cond.segs[2])
         ELSE Truthy(PropGet(ctx.props, Join(cond.segs)))

\* A fault for the checks below: 'key:value' compares String(props[key]).
EvaluateConditionCoercing(cond, h, ctx) ==
    IF cond.fn THEN CallCondition(cond.name, h, ctx)
    ELSE LET str == Join(cond.segs)
         IN  IF str \in {"ios", "android", "web"} THEN ctx.platform = str
             ELSE IF Len(cond.segs) > 1
                  THEN ToStr(PropGet(ctx.props, cond.segs[1])) = cond.segs[2]
                  ELSE Truthy(PropGet(ctx.props, str))

\* evaluateCondition(condition, ctx), for a function or a string
EvaluateCondition(cond, h, ctx) ==
    IF cond.fn THEN CallCondition(cond.name, h, ctx)
    ELSE LET str == Join(cond.segs)
         IN  IF str \in {"ios", "android", "web"} THEN ctx.platform = str
             ELSE IF Len(cond.segs) > 1
                  THEN PropGet(ctx.props, cond.segs[1]) = Str(cond.segs[2])
                  ELSE Truthy(PropGet(ctx.props, str))

\* The style payloads of the model: an object, or a function of the context.
\*   red:    { color: 'red' }
\*   themed: ({ theme }) => ({ color: theme.colors?.primary })
StyleChoices == {[fn |-> FALSE, name |-> "red"], [fn |-> TRUE, name |-> "themed"]}

NoStyle == [fn |-> FALSE, name |-> ""]

\* The value the themed style function reads.
ThemedValue(h, theme) == Get(h, Get(h, theme, "colors"), "primary")

\* resolveStyle(style, ctx)
ResolveStyle(style, h, ctx) ==
    IF style.fn THEN [color |-> ThemedValue(h, ctx.theme)]
    ELSE [color |-> Str("red")]

\* resolveAttrs(attrs, ctx)
ResolveAttrs(attrs, ctx) == attrs

\* The conditional rules of the model:
\*   when('size:1', { testID: 'one' }) and when(isOne, { testID: 'fn' })
WhenChoices ==
    {[cond |-> CondString(<<"size", "1">>), attrs |-> [testID |-> Str("one")]],
     [cond |-> CondFn("isOne"), attrs |-> [testID |-> Str("fn")]]}

\* The attribute rules of the model: attrs({ testID: 'base' })
AttrsChoices == {[testID |-> Str("base")]}

\* A rule; the fields its kind does not have are NoCondition, NoStyle, {}.
Rule(kind, cond, style, attrs) ==
    [kind |-> kind, cond |-> cond, style |-> style, attrs |-> attrs]

\* A fault for the checks below: a key the target has keeps its value.
AssignKeepTarget(target, source) ==
    [k \in DOMAIN target \cup DOMAIN source |->
        IF k \in DOMAIN target THEN target[k] ELSE source[k]]

\* A function is an object with the internal slot [[Call]]: the payload
\* (ctx) => ({ ... }) is kept as the object whose only entry is that slot.
\* Its own enumerable properties are the other entries.
AttrsFn(name) == [x \in {"[[Call]]"} |-> Str(name)]

IsFunction(o) == "[[Call]]" \in DOMAIN o

\* What the payload function returns when it is called with the context.
\*   byPlatform: ({ platform }) => ({ testID: platform })
CallAttrs(o, ctx) == [testID |-> Str(ctx.platform)]

OwnKeys(o) == DOMAIN o \ {"[[Call]]"}

\* Object.assign(target, source): the own enumerable properties of source.
Assign(target, source) ==
    [k \in DOMAIN target \cup OwnKeys(source) |->
        IF k \in OwnKeys(source) THEN source[k] ELSE target[k]]

\* StyleSheet.flatten(styles): later entries overwrite earlier ones.
RECURSIVE Flatten(_)
Flatten(styles) ==
    IF styles = <<>> THEN EmptyF
    ELSE Assign(Flatten(SubSeq(styles, 1, Len(styles) - 1)), styles[Len(styles)])

\* The rule loop of build(), from rule i on: the style list, the attributes,
\* the number of style and condition functions called, what each condition
\* evaluated to, and whether the loop ended in an exception.
RECURSIVE RuleLoop(_, _, _, _, _)
RuleLoop(i, rs, h, ctx, acc) ==
    IF i > Len(rs) THEN acc
    ELSE IF rs[i].kind = "when" /\ ConditionThrows(rs[i].cond)
    THEN [acc EXCEPT !.threw = TRUE]
    ELSE
      LET rule == rs[i]
          next ==
            CASE rule.kind = "when" ->
                   [acc EXCEPT
                      !.attrs = IF EvaluateCondition(rule.cond, h, ctx)
                                THEN Assign(@, ResolveAttrs(rule.attrs, ctx))
                                ELSE @,
                      !.conds = Append(@, EvaluateCondition(rule.cond, h, ctx)),
                      !.calls = IF rule.cond.fn THEN @ + 1 ELSE @]
              [] rule.kind = "style" ->
                   [acc EXCEPT
                      !.styles = Append(@, ResolveStyle(rule.style, h, ctx)),
                      !.calls = IF rule.style.fn THEN @ + 1 ELSE @]
              [] OTHER ->
                   [acc EXCEPT !.attrs = Assign(@, ResolveAttrs(rule.attrs, ctx))]
      IN  RuleLoop(i + 1, rs, h, ctx, next)

\* Lines 124-148: the result object of an uncached resolution.
ResolveRules(rs, h, ctx) ==
    LET out == RuleLoop(1, rs, h, ctx,
                   [styles |-> <<>>, attrs |-> EmptyF, calls |-> 0,
                    conds |-> <<>>, threw |-> FALSE])
    IN  [computedStyle |-> Flatten(out.styles), attrs |-> out.attrs,
         calls |-> out.calls, styles |-> out.styles, conds |-> out.conds,
         threw |-> out.threw]

\* The props objects a parent passes: { size: 1 }, { size: '1' },
\* { size: 1, title: 'x' } (title is not among STYLE_HASH_PROPS) and
\* { size: 1, active: null } (active is, and typeof null is 'object').
PropsPool ==
    {[size |-> Num("1")],
     [size |-> Str("1")],
     [size |-> Num("1"), title |-> Str("x")],
     [size |-> Num("1"), active |-> Null]}

NoRender ==
    [n |-> 0, theme |-> Undef, props |-> EmptyF, hash |-> "", value |-> 0,
     hit |-> FALSE, memoHit |-> FALSE, calls |-> 0, callN |-> 0, appended |-> FALSE,
     styles |-> <<>>, conds |-> <<>>, threw |-> FALSE]

NoMemo == [valid |-> FALSE, theme |-> Undef, props |-> EmptyF, value |-> 0]

EngineIdle ==
    /\ platform = "ios"
    /\ rules = <<>>
    /\ cacheByTheme = EmptyF
    /\ results = <<>>
    /\ memo = NoMemo
    /\ last = NoRender

\* new StylizedBuilder(BaseComponent), on some platform.
InitEngine ==
    /\ platform \in Platforms
    /\ rules = <<>>
    /\ cacheByTheme = EmptyF
    /\ results = <<>>
    /\ memo = NoMemo
    /\ last = NoRender

\* this.rules.push({ kind, ... }); `appended` remembers a push that follows
\* a render.
Push(kind, cond, style, attrs) ==
    /\ call.pc = "idle"
    /\ Len(rules) < MaxRules
    /\ rules' = Append(rules, Rule(kind, cond, style, attrs))
    /\ last' = [last EXCEPT !.appended = @ \/ last.n > 0]
    /\ UNCHANGED <<heap, currentTheme, listeners, subs, call, harnessVars,
                   platform, cacheByTheme, results, memo, cacheVars, proxyVars>>

\* builder.style(styleOrFn)
Style(style) == Push("style", NoCondition, style, EmptyF)

\* builder.when(condition, attrs)
When(cond, attrs) == Push("when", cond, NoStyle, attrs)

\* builder.attrs(attrs)
Attrs(attrs) == Push("attrs", NoCondition, NoStyle, attrs)

\* A fault for the checks below: one cache for all themes.
PartitionKeyShared(theme) == 0

\* this.cacheByTheme.get(theme): the WeakMap is keyed by the theme object.
PartitionKey(theme) == theme.a

\* One render of the built component with props p; `same` tells that p is the
\* very props object of the previous render (useMemo compares by identity).
\* An exception of the rule loop leaves the useMemo callback before
\* cache.set, after the theme's cache was made.
Render(p, same) ==
    /\ call.pc = "idle"
    /\ last.n < MaxRenders
    /\ same => (memo.valid /\ memo.props = p)
    /\ LET theme == currentTheme
           ctx == [theme |-> theme, props |-> p, platform |-> platform]
           hash == OptimizedHash(heap, ctx)
           key == PartitionKey(theme)
           cache == IF key \in DOMAIN cacheByTheme THEN cacheByTheme[key] ELSE <<>>
           got == LRUGet(cache, hash)
           fresh == ResolveRules(rules, heap, ctx)
           new == Len(results) + 1
           seen == [last EXCEPT !.n = @ + 1, !.theme = theme, !.props = p,
                                !.hash = hash, !.callN = call.n, !.styles = <<>>,
                                !.conds = <<>>, !.threw = FALSE]
       IN  IF same /\ memo.theme = theme
           THEN /\ last' = [seen EXCEPT !.value = memo.value, !.hit = FALSE,
                                        !.memoHit = TRUE, !.calls = 0]
                /\ UNCHANGED <<cacheByTheme, results, memo>>
           ELSE IF got.found
           THEN /\ cacheByTheme' = (key :> got.c) @@ cacheByTheme
                /\ last' = [seen EXCEPT !.value = got.v, !.hit = TRUE,
                                        !.memoHit = FALSE, !.calls = 0]
                /\ memo' = [valid |-> TRUE, theme |-> theme, props |-> p, value |-> got.v]
                /\ UNCHANGED results
           ELSE IF fresh.threw
           THEN /\ cacheByTheme' = (key :> got.c) @@ cacheByTheme
                /\ last' = [seen EXCEPT !.value = 0, !.hit = FALSE,
                                        !.memoHit = FALSE, !.calls = fresh.calls,
                                        !.styles = fresh.styles,
                                        !.conds = fresh.conds, !.threw = TRUE]
                /\ UNCHANGED <<results, memo>>
           ELSE /\ results' = Append(results, [computedStyle |-> fresh.computedStyle,
                                               attrs |-> fresh.attrs])
                /\ cacheByTheme' = (key :> LRUSet(got.c, LRULimit, hash, new)) @@ cacheByTheme
                /\ last' = [seen EXCEPT !.value = new, !.hit = FALSE,
                                        !.memoHit = FALSE, !.calls = fresh.calls,
                                        !.styles = fresh.styles,
                                        !.conds = fresh.conds]
                /\ memo' = [valid |-> TRUE, theme |-> theme, props |-> p, value |-> new]
    /\ UNCHANGED <<heap, currentTheme, listeners, subs, call, harnessVars,
                   platform, rules, cacheVars, proxyVars>>

\* A fault for the checks below: the forwarded ref is always passed on.
ResolvedRefForwarded(rs, ref) == ref

\* Lines 154-163, resolvedRef: the ref of the first 'when' rule whose attrs
\* have a truthy ref, and the forwarded ref when there is none.
ResolvedRef(rs, ref) ==
    LET has == {i \in 1..Len(rs) :
                   rs[i].kind = "when" /\ Truthy(PropGet(rs[i].attrs, "ref"))}
    IN  IF has = {} THEN ref
        ELSE rs[CHOOSE i \in has : \A j \in has : i <= j].attrs["ref"]

\* A fault for the checks below: the rule-derived attrs are spread last.
ElementPropsAttrsLast(result, p) ==
    [k \in DOMAIN result.attrs \cup (DOMAIN p \ {"style"}) |->
        IF k \in DOMAIN result.attrs THEN result.attrs[k] ELSE p[k]]

\* Lines 165-172: the props of the element, { ...attrs, ...restProps }, and
\* the styles it is given, in order.
RestProps(p) == [k \in DOMAIN p \ {"style"} |-> p[k]]

ElementProps(result, p) == Assign(result.attrs, RestProps(p))

ElementStyle(result, p) ==
    IF Truthy(PropGet(p, "style"))
    THEN <<result.computedStyle, PropGet(p, "style")>>
    ELSE <<result.computedStyle>>

\* A fault for the checks below: style is written before the attrs are
\* spread, so a style among the attrs replaces it.
CreateElementStyleFirst(result, p, ref) ==
    [props |-> [k \in DOMAIN ElementProps(result, p) \ {"ref", "style"} |->
                   ElementProps(result, p)[k]],
     ref |-> ref,
     style |-> IF "style" \in DOMAIN result.attrs
               THEN <<result.attrs["style"]>>
               ELSE ElementStyle(result, p)]

\* Lines 167-172, React.createElement(Base, { ...attrs, ...restProps, ref,
\* style }): ref and style are written after the two spreads, so they replace
\* a ref or style that the spreads gave.
CreateElement(result, p, ref) ==
    [props |-> [k \in DOMAIN ElementProps(result, p) \ {"ref", "style"} |->
                   ElementProps(result, p)[k]],
     ref |-> ref,
     style |-> ElementStyle(result, p)]

\* What setTheme is called with while the component is mounted.
EngineInputs ==
    {[fn |-> FALSE, lit |-> l] :
        l \in {LObj([colors |-> LObj([primary |-> LPrim(Blue)])]),
               LObj([colors |-> LObj([primary |-> LPrim(Red)])])}}

\* setTheme(input), called by the application.
UpdateTheme(input) == call.n < MaxThemeUpdates /\ SetThemeCall(input)

\* The component is mounted: useTheme() has subscribed its listener.
Init ==
    /\ heap = <<[kind |-> "obj", f |-> EmptyF, e |-> <<>>]>>
    /\ currentTheme = Ref(1)
    /\ listeners = <<"A">>
    /\ subs = [l \in Listeners |-> IF l = "A" THEN 1 ELSE 0]
    /\ call = StoreIdle
    /\ HarnessIdle
    /\ InitEngine
    /\ CacheIdle
    /\ ProxyIdle

Next ==
    \/ \E style \in StyleChoices : Style(style)
    \/ \E w \in WhenChoices : When(w.cond, w.attrs)
    \/ \E attrs \in AttrsChoices : Attrs(attrs)
    \/ \E p \in PropsPool, same \in BOOLEAN : Render(p, same)
    \/ \E input \in EngineInputs : UpdateTheme(input)
    \/ Notify
    \/ Return

Spec == Init /\ [][Next]_vars

InitStore ==
    InitStoreVars /\ HarnessIdle /\ EngineIdle /\ CacheIdle /\ ProxyIdle

NextStore ==
    \/ \E l \in Listeners : Subscribe(l)
    \/ \E l \in Listeners : Unsubscribe(l)
    \/ \E input \in StoreInputs : SetThemeCall(input)
    \/ Notify
    \/ Return

SpecStore == InitStore /\ [][NextStore]_vars

(***************************************************************************)
(* The store with callbacks that call back into it: an updater function    *)
(* or a listener that calls setTheme, and listeners that subscribe or      *)
(* unsubscribe another listener while listeners.forEach is under way.      *)
(* Everything is synchronous, so a call made by a callback runs to its end *)
(* inside the callback.                                                    *)
(***************************************************************************)
\* What a callback calls setTheme with: setTheme({ k: 1 })
InnerInput == [fn |-> FALSE, lit |-> LObj([k |-> LPrim(Num("1"))])]

\* What the application returns from the updater, or passes as the object:
\* { colors: { primary: '#FF3B30' } } and the toggling of colors.primary.
OuterLits ==
    {LObj([colors |-> LObj([primary |-> LPrim(Red)])]),
     LObj([colors |-> LObj([primary |-> LToggle])])}

\* A whole setTheme(input) made by a callback, lines 50-59: it reads the
\* snapshot cur, merges, stores, invokes every listener of ls (they only read
\* here) and returns.  c is the record of the call under way.
InnerSetTheme(h, cur, ls, input, c) ==
    LET p == Eval(h, input.lit, cur)
        m == NextSnapshot(p.h, cur, p.v)
    IN  [h |-> m.h,
         v |-> m.v,
         call |-> [c EXCEPT
                     !.inner = input,
                     !.innerPre = Reify(h, cur),
                     !.innerRet = m.v,
                     !.count = [l \in Listeners |->
                                   IF l \in Members(ls) THEN c.count[l] + 1
                                   ELSE c.count[l]],
                     !.seen = [l \in Listeners |->
                                  IF l \in Members(ls) THEN m.v ELSE c.seen[l]],
                     !.seenContent = [l \in Listeners |->
                                         IF l \in Members(ls) THEN Reify(m.h, m.v)
                                         ELSE c.seenContent[l]]]]

\* setTheme(prev => { setTheme({ k: 1 }); return lit }): prev is read (50),
\* the updater runs (53) and in it the whole inner call, then the merge of
\* prev with the updater's result is stored (56).
SetThemeUpdaterCallsSetTheme(lit) ==
    /\ call.pc = "idle"
    /\ call.n < MaxUpdates
    /\ LET prev == currentTheme
           arg == UpdaterArgument(prev)
           in == InnerSetTheme(heap, currentTheme, listeners, InnerInput, StoreIdle)
           p == Eval(in.h, lit, arg)
           m == NextSnapshot(p.h, prev, p.v)
       IN  /\ heap' = m.h
           /\ currentTheme' = m.v
           /\ call' = [in.call EXCEPT
                          !.pc = "notify", !.n = call.n + 1,
                          !.input = [fn |-> TRUE, lit |-> lit],
                          !.prev = prev, !.arg = arg, !.partial = p.v,
                          !.pre = Reify(heap, prev), !.atEntry = listeners]
    /\ UNCHANGED <<listeners, subs, harnessVars, engineVars, cacheVars, proxyVars>>

\* The pass invokes a listener that calls setTheme({ k: 1 }), the first time
\* it runs during this call.
NotifyCallsSetTheme ==
    /\ call.pc = "notify"
    /\ ~ForEachDone(call.i, listeners)
    /\ call.inner = NoInput
    /\ LET l == listeners[call.i + 1]
           c == [call EXCEPT !.i = @ + 1,
                             !.count[l] = @ + 1,
                             !.seen[l] = currentTheme,
                             !.seenContent[l] = Reify(heap, currentTheme)]
           in == InnerSetTheme(heap, currentTheme, listeners, InnerInput, c)
       IN  /\ heap' = in.h
           /\ currentTheme' = in.v
           /\ call' = in.call
    /\ UNCHANGED <<listeners, subs, harnessVars, engineVars, cacheVars, proxyVars>>

\* The pass invokes a listener that calls themeStore.subscribe(m).  forEach
\* of a Set visits an entry that is added while it runs.
NotifySubscribes(m) ==
    /\ call.pc = "notify"
    /\ ~ForEachDone(call.i, listeners)
    /\ subs[m] < MaxSubscribes
    /\ LET l == listeners[call.i + 1]
       IN  call' = [call EXCEPT !.i = @ + 1,
                                !.count[l] = @ + 1,
                                !.seen[l] = currentTheme,
                                !.seenContent[l] = Reify(heap, currentTheme)]
    /\ listeners' = SetAdd(listeners, m)
    /\ subs' = [subs EXCEPT ![m] = IF @ > 0 THEN @ + 1 ELSE 1]
    /\ UNCHANGED <<heap, currentTheme, harnessVars, engineVars, cacheVars, proxyVars>>

\* The pass invokes a listener that calls the unsubscribe function of m.
\* forEach of a Set does not visit an entry that is deleted before it is
\* reached; the entries behind a deleted one move up, and with them the
\* place the pass has come to.
NotifyUnsubscribes(m) ==
    /\ call.pc = "notify"
    /\ ~ForEachDone(call.i, listeners)
    /\ m \in Members(listeners)
    /\ LET l == listeners[call.i + 1]
           at == CHOOSE j \in 1..Len(listeners) : listeners[j] = m
       IN  call' = [call EXCEPT !.i = IF at <= call.i + 1 THEN @ ELSE @ + 1,
                                !.count[l] = @ + 1,
                                !.seen[l] = currentTheme,
                                !.seenContent[l] = Reify(heap, currentTheme)]
    /\ listeners' = SetDelete(listeners, m)
    /\ subs' = [subs EXCEPT ![m] = -1]
    /\ UNCHANGED <<heap, currentTheme, harnessVars, engineVars, cacheVars, proxyVars>>

NextReentrant ==
    \/ \E l \in Listeners : Subscribe(l)
    \/ \E l \in Listeners : Unsubscribe(l)
    \/ \E lit \in OuterLits : SetThemeCall([fn |-> FALSE, lit |-> lit])
    \/ \E lit \in OuterLits : SetThemeUpdaterCallsSetTheme(lit)
    \/ Notify
    \/ NotifyCallsSetTheme
    \/ \E m \in Listeners : NotifySubscribes(m)
    \/ \E m \in Listeners : NotifyUnsubscribes(m)
    \/ Return

SpecReentrant == InitStore /\ [][NextReentrant]_vars

(***************************************************************************)
(* The deep-merge harness: deepMerge(T, P), then deepMerge of the result   *)
(* with P again, for every theme T and partial P of the sets above.        *)
(***************************************************************************)
InitMerge ==
    \E T \in ThemeLits, P \in PartialLits :
        LET b == Alloc(<<>>, T, Undef)
            p == Alloc(b.h, P, b.v)
        IN  /\ heap = p.h
            /\ mHeap0 = p.h
            /\ mBase = b.v
            /\ mPartial = p.v
            /\ mOut = <<>>
            /\ currentTheme = Undef
            /\ listeners = <<>>
            /\ subs = [l \in Listeners |-> 0]
            /\ call = StoreIdle
            /\ EngineIdle
            /\ CacheIdle
            /\ ProxyIdle

\* const merged = deepMerge(base, partial)
MergeOnce ==
    /\ mOut = <<>>
    /\ LET m == DeepMerge(heap, mBase, mPartial)
       IN  /\ heap' = m.h
           /\ mOut' = <<m.v>>
    /\ UNCHANGED <<currentTheme, listeners, subs, call, mBase, mPartial, mHeap0,
                   engineVars, cacheVars, proxyVars>>

\* deepMerge(merged, partial)
MergeAgain ==
    /\ Len(mOut) = 1
    /\ LET m == DeepMerge(heap, mOut[1], mPartial)
       IN  /\ heap' = m.h
           /\ mOut' = Append(mOut, m.v)
    /\ UNCHANGED <<currentTheme, listeners, subs, call, mBase, mPartial, mHeap0,
                   engineVars, cacheVars, proxyVars>>

NextMerge == MergeOnce \/ MergeAgain

SpecMerge == InitMerge /\ [][NextMerge]_vars

(***************************************************************************)
(* One resolution of a built component, for every short rule list: the     *)
(* builder was given its rules, the theme is { colors: { primary:          *)
(* '#007AFF' } }, and the component is rendered once.                       *)
(***************************************************************************)
\* The most rules of a builder that is resolved once.
MaxListLen == 2

\* The objects of the application besides the theme: two refs made with
\* useRef(null) that rules carry, the ref the parent forwards, the style
\* object the parent passes and the style object a rule's attributes carry.
\* They follow the theme in the heap.
RefCell == [kind |-> "obj", f |-> [current |-> Null], e |-> <<>>]
StyleCell == [kind |-> "obj", f |-> [margin |-> Num("4")], e |-> <<>>]
RefA == Ref(3)
RefB == Ref(4)
ForwardedRef == Ref(5)
DirectStyle == Ref(6)
RuleStyle == Ref(7)

\* More conditional rules:
\*   when('active', { color: 'blue' }), when('variant:primary', { testID: 'v' }),
\*   when('disabled', { testID: 'd' }), when('ios', { testID: 'ios' }),
\*   when(true, { testID: 't' }), when(false, { testID: 'f' }),
\*   when('active', { ref: refA }), when('disabled', { ref: refB }),
\*   when('active', byPlatform)
\*     with byPlatform: ({ platform }) => ({ testID: platform }),
\*   when('a:b:c', { testID: 'm' }), when('disabled:true', { testID: 'dt' }),
\*   when('testID:base', { testID: 'seen' }),
\*   when('active', { style: ruleStyle })
ResolveWhenChoices ==
    {[cond |-> CondString(<<"active">>), attrs |-> [color |-> Str("blue")]],
     [cond |-> CondString(<<"variant", "primary">>), attrs |-> [testID |-> Str("v")]],
     [cond |-> CondString(<<"disabled">>), attrs |-> [testID |-> Str("d")]],
     [cond |-> CondString(<<"ios">>), attrs |-> [testID |-> Str("ios")]],
     [cond |-> CondBool("true"), attrs |-> [testID |-> Str("t")]],
     [cond |-> CondBool("false"), attrs |-> [testID |-> Str("f")]],
     [cond |-> CondString(<<"active">>), attrs |-> [ref |-> RefA]],
     [cond |-> CondString(<<"disabled">>), attrs |-> [ref |-> RefB]],
     [cond |-> CondString(<<"active">>), attrs |-> AttrsFn("byPlatform")],
     [cond |-> CondString(<<"a", "b", "c">>), attrs |-> [testID |-> Str("m")]],
     [cond |-> CondString(<<"disabled", "true">>), attrs |-> [testID |-> Str("dt")]],
     [cond |-> CondString(<<"testID", "base">>), attrs |-> [testID |-> Str("seen")]],
     [cond |-> CondString(<<"active">>), attrs |-> [style |-> RuleStyle]]}

\* The rules a builder is made of; attrs({ style: ruleStyle }) is among them.
ResolveRulePool ==
    {Rule("style", NoCondition, style, EmptyF) : style \in StyleChoices}
    \cup {Rule("when", w.cond, NoStyle, w.attrs) :
              w \in WhenChoices \cup ResolveWhenChoices}
    \cup {Rule("attrs", NoCondition, NoStyle, attrs) :
              attrs \in AttrsChoices \cup {[style |-> RuleStyle]}}

RuleLists == UNION {[1..n -> ResolveRulePool] : n \in 0..MaxListLen}

\* The props objects of the one render; { 'a:b:c': true } has one key, the
\* whole string.
ResolveProps ==
    PropsPool \cup
    {EmptyF,
     [active |-> Bool("true")],
     [variant |-> Str("primary")],
     [variant |-> Str("secondary")],
     [disabled |-> Bool("true")],
     [ios |-> Bool("true")],
     [active |-> Bool("true"), testID |-> Str("direct")],
     [active |-> Bool("true"), style |-> DirectStyle],
     [style |-> Bool("false")],
     [a |-> Str("b")],
     [x \in {"a:b:c"} |-> Bool("true")]}

InitResolve ==
    /\ LET t == Alloc(<<>>, LObj([colors |-> LObj([primary |-> LPrim(Blue)])]), Undef)
       IN  /\ heap = t.h \o <<RefCell, RefCell, RefCell, StyleCell, StyleCell>>
           /\ currentTheme = t.v
    /\ listeners = <<"A">>
    /\ subs = [l \in Listeners |-> IF l = "A" THEN 1 ELSE 0]
    /\ call = StoreIdle
    /\ HarnessIdle
    /\ CacheIdle
    /\ ProxyIdle
    /\ platform \in Platforms
    /\ rules \in RuleLists
    /\ cacheByTheme = EmptyF
    /\ results = <<>>
    /\ memo = NoMemo
    /\ last = NoRender

\* The first render of the component.
Resolve(p) == last.n = 0 /\ Render(p, FALSE)

NextResolve == \E p \in ResolveProps : Resolve(p)

SpecResolve == InitResolve /\ [][NextResolve]_vars

(***************************************************************************)
(* The engine of src/unnamed/part_014: the same builder, whose rule loop   *)
(* makes a context for every rule, const currentCtx = { theme, platform,   *)
(* props: { ...attrs, ...props } }, and whose evaluateCondition and when   *)
(* accept a boolean and a payload function.  One first render of every     *)
(* rule list, as above.                                                    *)
(***************************************************************************)
\* evaluateCondition(condition, ctx) of part_014: a boolean is returned as it
\* is; the other branches are those of EvaluateCondition.
EvaluateConditionOrBoolean(cond, h, ctx) ==
    IF ConditionThrows(cond) THEN cond.name = "true"
    ELSE EvaluateCondition(cond, h, ctx)

\* The rule loop of part_014 from rule i on.  Every rule is evaluated against
\* currentCtx, whose props are the attributes merged so far overlaid with the
\* props of the render.
RECURSIVE RuleLoopCurrentCtx(_, _, _, _, _)
RuleLoopCurrentCtx(i, rs, h, ctx, acc) ==
    IF i > Len(rs) THEN acc
    ELSE
      LET rule == rs[i]
          currentCtx == [theme |-> ctx.theme, platform |-> ctx.platform,
                         props |-> Assign(acc.attrs, ctx.props)]
          on == EvaluateConditionOrBoolean(rule.cond, h, currentCtx)
          ruleAttrs == IF IsFunction(rule.attrs)
                       THEN CallAttrs(rule.attrs, currentCtx)
                       ELSE rule.attrs
          next ==
            CASE rule.kind = "when" ->
                   [acc EXCEPT
                      !.attrs = IF on THEN Assign(@, ruleAttrs) ELSE @,
                      !.conds = Append(@, on),
                      !.calls = IF rule.cond.fn THEN @ + 1 ELSE @]
              [] rule.kind = "style" ->
                   [acc EXCEPT
                      !.styles = Append(@, ResolveStyle(rule.style, h, currentCtx)),
                      !.calls = IF rule.style.fn THEN @ + 1 ELSE @]
              [] OTHER ->
                   [acc EXCEPT !.attrs = Assign(@, rule.attrs)]
      IN  RuleLoopCurrentCtx(i + 1, rs, h, ctx, next)

\* The first render of the component that part_014 builds, with props p: the
\* theme has no cache yet, one is made, the lookup misses, the rules are
\* resolved and the result is stored under the hash of ctx.
RenderCurrentCtx(p) ==
    /\ call.pc = "idle"
    /\ last.n = 0
    /\ cacheByTheme = EmptyF
    /\ LET theme == currentTheme
           ctx == [theme |-> theme, props |-> p, platform |-> platform]
           hash == OptimizedHash(heap, ctx)
           out == RuleLoopCurrentCtx(1, rules, heap, ctx,
                      [styles |-> <<>>, attrs |-> EmptyF, calls |-> 0,
                       conds |-> <<>>, threw |-> FALSE])
       IN  /\ results' = Append(results, [computedStyle |-> Flatten(out.styles),
                                          attrs |-> out.attrs])
           /\ cacheByTheme' = PartitionKey(theme) :> LRUSet(<<>>, LRULimit, hash, 1)
           /\ last' = [last EXCEPT !.n = 1, !.theme = theme, !.props = p,
                                   !.hash = hash, !.callN = call.n, !.value = 1,
                                   !.calls = out.calls, !.styles = out.styles,
                                   !.conds = out.conds]
           /\ memo' = [valid |-> TRUE, theme |-> theme, props |-> p, value |-> 1]
    /\ UNCHANGED <<heap, currentTheme, listeners, subs, call, harnessVars,
                   platform, rules, cacheVars, proxyVars>>

NextCurrentCtx == \E p \in ResolveProps : RenderCurrentCtx(p)

SpecCurrentCtx == InitResolve /\ [][NextCurrentCtx]_vars

(***************************************************************************)
(* A stand-alone LRUCache (cache/lru.ts) under get, set and clear.         *)
(***************************************************************************)
\* The largest limit a cache is made with.
MaxCapacity == 2

CacheKeys == {"a", "b", "c", "d"}

CacheValues == {1, 2}

\* k becomes the most recently used key.
Used(use, k) == Append(SelectSeq(use, LAMBDA x : x # k), k)

\* new LRUCache(limit)
InitCache ==
    /\ InitStoreVars
    /\ HarnessIdle
    /\ EngineIdle
    /\ ProxyIdle
    /\ lru = <<>>
    /\ lruLimit \in 1..MaxCapacity
    /\ lruUse = <<>>
    /\ lruOp = NoCacheOp

\* cache.get(k); a get that finds the key is a use of it.
CacheGet(k) ==
    /\ LET got == LRUGet(lru, k)
       IN  /\ lru' = got.c
           /\ lruUse' = IF got.found THEN Used(lruUse, k) ELSE lruUse
           /\ lruOp' = [op |-> "get", k |-> k, v |-> 0, found |-> got.found,
                        got |-> got.v]
    /\ UNCHANGED <<heap, currentTheme, listeners, subs, call, harnessVars,
                   engineVars, proxyVars, lruLimit>>

\* cache.set(k, v); a set is a use of the key.
CacheSet(k, v) ==
    /\ lru' = LRUSet(lru, lruLimit, k, v)
    /\ lruUse' = Used(lruUse, k)
    /\ lruOp' = [op |-> "set", k |-> k, v |-> v, found |-> k \in LRUKeys(lru),
                 got |-> 0]
    /\ UNCHANGED <<heap, currentTheme, listeners, subs, call, harnessVars,
                   engineVars, proxyVars, lruLimit>>

\* cache.clear()
CacheClear ==
    /\ lru' = LRUClear(lru)
    /\ lruOp' = [op |-> "clear", k |-> "", v |-> 0, found |-> FALSE, got |-> 0]
    /\ UNCHANGED <<heap, currentTheme, listeners, subs, call, harnessVars,
                   engineVars, proxyVars, lruLimit, lruUse>>

NextCache ==
    \/ \E k \in CacheKeys : CacheGet(k)
    \/ \E k \in CacheKeys, v \in CacheValues : CacheSet(k, v)
    \/ CacheClear

SpecCache == InitCache /\ [][NextCache]_vars

(***************************************************************************)
(* Builders behind their proxies (styled-engine.tsx: extend, build,        *)
(* makeProxy and stylized).  The application holds proxies only: each      *)
(* proxy wraps one component, which build() made on one builder.           *)
(***************************************************************************)
\* The most components made.
MaxComponents == 3

\* A fault for the checks below: the rule is put in front of the list.
ArrayUnshift(rs, r) == <<r>> \o rs

\* this.rules.push(rule)
ArrayPush(rs, r) == Append(rs, r)

\* new StylizedBuilder(BaseComponent, baseRules): this.rules = [...baseRules],
\* and a WeakMap of its own.
NewBuilder(baseRules) == [rules |-> baseRules, cacheByTheme |-> EmptyF]

\* A fault for the checks below: extend() returns the builder it is called on.
ExtendReturnsThis(bs, b) == [builders |-> bs, result |-> b]

\* builder.extend(): the builders afterwards, and the builder returned.
Extend(bs, b) ==
    [builders |-> Append(bs, NewBuilder(bs[b].rules)), result |-> Len(bs) + 1]

\* A fault for the checks below: build() works on a copy of the builder.
MakeProxyOnCopy(bs, cs, b) ==
    [builders |-> Append(bs, NewBuilder(bs[b].rules)),
     components |-> Append(cs, [builder |-> Len(bs) + 1])]

\* makeProxy(builder): builder.build() makes a component that closes over the
\* builder (`this`), and the proxy returned wraps that component.
MakeProxy(bs, cs, b) == [builders |-> bs, components |-> Append(cs, [builder |-> b])]

\* proxy.style(...), proxy.when(...), proxy.attrs(...) on the proxy of
\* component c (lines 186-196): the method runs on the builder, pushes its
\* rule and returns the builder, which makeProxy builds again.
ProxyPush(c, kind, cond, style, attrs) ==
    /\ call.pc = "idle"
    /\ c \in DOMAIN components
    /\ Len(components) < MaxComponents
    /\ LET b == components[c].builder
           pushed == [builders EXCEPT
                        ![b].rules = ArrayPush(@, Rule(kind, cond, style, attrs))]
           out == MakeProxy(pushed, components, b)
       IN  /\ builders' = out.builders
           /\ components' = out.components
           /\ proxyOp' = [op |-> kind, builder |-> b]
    /\ UNCHANGED <<heap, currentTheme, listeners, subs, call, harnessVars,
                   engineVars, cacheVars, made, renders>>

ProxyStyle(c, style) == ProxyPush(c, "style", NoCondition, style, EmptyF)

ProxyWhen(c, cond, attrs) == ProxyPush(c, "when", cond, NoStyle, attrs)

ProxyAttrs(c, attrs) == ProxyPush(c, "attrs", NoCondition, NoStyle, attrs)

\* proxy.extend(): the new builder is given to makeProxy.
ProxyExtend(c) ==
    /\ call.pc = "idle"
    /\ c \in DOMAIN components
    /\ Len(components) < MaxComponents
    /\ LET b == components[c].builder
           ext == Extend(builders, b)
           out == MakeProxy(ext.builders, components, ext.result)
       IN  /\ builders' = out.builders
           /\ components' = out.components
           /\ proxyOp' = [op |-> "extend", builder |-> b]
    /\ UNCHANGED <<heap, currentTheme, listeners, subs, call, harnessVars,
                   engineVars, cacheVars, made, renders>>

\* proxy.build(): build() returns a component, which is no builder, and line
\* 195 gives makeProxy the builder of the proxy: it is built once more.
ProxyBuild(c) ==
    /\ call.pc = "idle"
    /\ c \in DOMAIN components
    /\ Len(components) < MaxComponents
    /\ LET b == components[c].builder
           out == MakeProxy(builders, components, b)
       IN  /\ builders' = out.builders
           /\ components' = out.components
           /\ proxyOp' = [op |-> "build", builder |-> b]
    /\ UNCHANGED <<heap, currentTheme, listeners, subs, call, harnessVars,
                   engineVars, cacheVars, made, renders>>

\* One render of component c with a new props object p (lines 105-152): the
\* useMemo callback runs, with the rules and the cache of the builder that
\* build() was called on.  `made` keeps, with every result object, the builder,
\* the component, the theme, the hash and the rule list it was computed from.
RenderComponent(c, p) ==
    /\ call.pc = "idle"
    /\ c \in DOMAIN components
    /\ LET b == components[c].builder
           theme == currentTheme
           ctx == [theme |-> theme, props |-> p, platform |-> platform]
           hash == OptimizedHash(heap, ctx)
           key == PartitionKey(theme)
           byTheme == builders[b].cacheByTheme
           cache == IF key \in DOMAIN byTheme THEN byTheme[key] ELSE <<>>
           got == LRUGet(cache, hash)
           fresh == ResolveRules(builders[b].rules, heap, ctx)
           new == Len(made) + 1
       IN  /\ proxyOp' = [op |-> "render", builder |-> b]
           /\ IF got.found
              THEN /\ builders' = [builders EXCEPT
                                     ![b].cacheByTheme = (key :> got.c) @@ @]
                   /\ renders' = Append(renders,
                          [comp |-> c, builder |-> b, theme |-> theme,
                           hash |-> hash, hit |-> TRUE,
                           threw |-> FALSE, value |-> got.v])
                   /\ UNCHANGED made
              ELSE IF fresh.threw
              THEN /\ builders' = [builders EXCEPT
                                     ![b].cacheByTheme = (key :> got.c) @@ @]
                   /\ renders' = Append(renders,
                          [comp |-> c, builder |-> b, theme |-> theme,
                           hash |-> hash, hit |-> FALSE,
                           threw |-> TRUE, value |-> 0])
                   /\ UNCHANGED made
              ELSE /\ made' = Append(made,
                          [computedStyle |-> fresh.computedStyle,
                           attrs |-> fresh.attrs, builder |-> b, comp |-> c,
                           theme |-> theme, hash |-> hash,
                           rules |-> builders[b].rules])
                   /\ builders' = [builders EXCEPT
                                     ![b].cacheByTheme =
                                        (key :> LRUSet(got.c, LRULimit, hash, new)) @@ @]
                   /\ renders' = Append(renders,
                          [comp |-> c, builder |-> b, theme |-> theme,
                           hash |-> hash, hit |-> FALSE,
                           threw |-> FALSE, value |-> new])
    /\ UNCHANGED <<heap, currentTheme, listeners, subs, call, harnessVars,
                   engineVars, cacheVars, components>>

\* The props objects of these renders: { size: 1 } and { size: 2 }.
ProxyProps == {[size |-> Num("1")], [size |-> Num("2")]}

\* The rules chained in the model:
\*   style({ color: 'red' }), when('size:1', { testID: 'one' }),
\*   attrs({ testID: 'base' })
ProxyStyles == {s \in StyleChoices : ~s.fn}
ProxyWhens == {w \in WhenChoices : ~w.cond.fn}

\* A render, as long as the model goes.
Show(c, p) == Len(renders) < MaxRenders /\ RenderComponent(c, p)

\* const Base = stylized(View): a builder without rules, built at once.
InitProxy ==
    /\ heap = <<[kind |-> "obj", f |-> EmptyF, e |-> <<>>]>>
    /\ currentTheme = Ref(1)
    /\ listeners = <<"A">>
    /\ subs = [l \in Listeners |-> IF l = "A" THEN 1 ELSE 0]
    /\ call = StoreIdle
    /\ HarnessIdle
    /\ EngineIdle
    /\ CacheIdle
    /\ LET out == MakeProxy(<<NewBuilder(<<>>)>>, <<>>, 1)
       IN  builders = out.builders /\ components = out.components
    /\ made = <<>>
    /\ renders = <<>>
    /\ proxyOp = [op |-> "stylized", builder |-> 1]

NextProxy ==
    \/ \E c \in 1..MaxComponents, style \in ProxyStyles : ProxyStyle(c, style)
    \/ \E c \in 1..MaxComponents, w \in ProxyWhens : ProxyWhen(c, w.cond, w.attrs)
    \/ \E c \in 1..MaxComponents, attrs \in AttrsChoices : ProxyAttrs(c, attrs)
    \/ \E c \in 1..MaxComponents : ProxyExtend(c)
    \/ \E c \in 1..MaxComponents : ProxyBuild(c)
    \/ \E c \in 1..MaxComponents, p \in ProxyProps : Show(c, p)

SpecProxy == InitProxy /\ [][NextProxy]_vars

(***************************************************************************)
(* One builder under theme updates: const Box = stylized(View) with one    *)
(* rule chained, rendered while the application calls setTheme.            *)
(***************************************************************************)
\* The rules of the model, all kinds together.
ProxyRulePool ==
    {Rule("style", NoCondition, style, EmptyF) : style \in StyleChoices}
    \cup {Rule("when", w.cond, NoStyle, w.attrs) : w \in WhenChoices}
    \cup {Rule("attrs", NoCondition, NoStyle, attrs) : attrs \in AttrsChoices}

InitThemes ==
    /\ heap = <<[kind |-> "obj", f |-> EmptyF, e |-> <<>>]>>
    /\ currentTheme = Ref(1)
    /\ listeners = <<"A">>
    /\ subs = [l \in Listeners |-> IF l = "A" THEN 1 ELSE 0]
    /\ call = StoreIdle
    /\ HarnessIdle
    /\ InitEngine
    /\ CacheIdle
    /\ \E r \in ProxyRulePool :
          LET first == MakeProxy(<<NewBuilder(<<>>)>>, <<>>, 1)
              pushed == [first.builders EXCEPT ![1].rules = ArrayPush(@, r)]
              out == MakeProxy(pushed, first.components, 1)
          IN  /\ builders = out.builders
              /\ components = out.components
              /\ proxyOp = [op |-> r.kind, builder |-> 1]
    /\ made = <<>>
    /\ renders = <<>>

NextThemes ==
    \/ \E c \in 1..MaxComponents, p \in ProxyProps : Show(c, p)
    \/ \E input \in EngineInputs : UpdateTheme(input)
    \/ Notify
    \/ Return

SpecThemes == InitThemes /\ [][NextThemes]_vars

(***************************************************************************)
(* One builder rendered for many contexts: a list of items <Box size={n}/> *)
(* for n = 1, 2, ..., each with a hash of its own, and some of the first   *)
(* items rendered again once the cache of the theme is nearly full.        *)
(***************************************************************************)
\* The most distinct contexts rendered, and the most renders of a context
\* that was rendered before.
MaxContexts == 301
MaxAgain == 2

\* The items rendered again.
AgainSizes == {1, 2}

\* { size: n }
SizeProps(n) == [size |-> Num(ToString(n))]

\* The number of distinct hashes rendered so far.
Contexts == Cardinality({renders[i].hash : i \in DOMAIN renders})

\* The next item of the list is rendered.
ShowNew ==
    /\ Contexts < MaxContexts
    /\ RenderComponent(Len(components), SizeProps(Contexts + 1))

\* Item k is rendered again.
ShowAgain(k) ==
    /\ Contexts >= LRULimit - 1
    /\ k <= Contexts
    /\ Len(renders) - Contexts < MaxAgain
    /\ RenderComponent(Len(components), SizeProps(k))

\* const Box = stylized(View) with one rule chained, on ios.
InitFill ==
    /\ heap = <<[kind |-> "obj", f |-> EmptyF, e |-> <<>>]>>
    /\ currentTheme = Ref(1)
    /\ listeners = <<"A">>
    /\ subs = [l \in Listeners |-> IF l = "A" THEN 1 ELSE 0]
    /\ call = StoreIdle
    /\ HarnessIdle
    /\ EngineIdle
    /\ CacheIdle
    /\ \E r \in ProxyRulePool :
          LET first == MakeProxy(<<NewBuilder(<<>>)>>, <<>>, 1)
              pushed == [first.builders EXCEPT ![1].rules = ArrayPush(@, r)]
              out == MakeProxy(pushed, first.components, 1)
          IN  /\ ~r.cond.fn
              /\ ~r.style.fn
              /\ builders = out.builders
              /\ components = out.components
              /\ proxyOp = [op |-> r.kind, builder |-> 1]
    /\ made = <<>>
    /\ renders = <<>>

NextFill ==
    \/ ShowNew
    \/ \E k \in AgainSizes : ShowAgain(k)

SpecFill == InitFill /\ [][NextFill]_vars

(***************************************************************************)
(* Claims about deepMerge.                                                 *)
(***************************************************************************)
IsEmptyObject(h, v) == v.t = "ref" /\ h[v.a].kind = "obj" /\ DOMAIN h[v.a].f = {}

\* C8: deep-merge identity: for every theme object T, deepMerge(T, {})
\* returns T itself, the same reference.
C8_MergeIdentity ==
    (Len(mOut) >= 1 /\ IsEmptyObject(mHeap0, mPartial)) => mOut[1] = mBase

\* C8 witness: a non-empty theme has been merged with the empty object.
C8_Witness ==
    /\ Len(mOut) >= 1
    /\ IsEmptyObject(mHeap0, mPartial)
    /\ Get(mHeap0, mBase, "colors").t = "ref"
    /\ Get(mHeap0, mBase, "k") = Num("1")

\* The merge as the specification words it, on contents: at a key of P, P's
\* value, or the merge of the two values when both are non-array objects; at
\* any other key, B's value.
RECURSIVE MergeSpec(_, _)
MergeSpec(B, P) ==
    LET val(k) ==
            IF k \notin DOMAIN P.o THEN B.o[k]
            ELSE IF k \in DOMAIN B.o /\ B.o[k].t = "obj" /\ P.o[k].t = "obj"
                 THEN MergeSpec(B.o[k], P.o[k])
                 ELSE P.o[k]
    IN  LObj([k \in DOMAIN B.o \cup DOMAIN P.o |-> val(k)])

\* C9: deep-merge result: at every key of P the merged value has P's value
\* when that is a primitive, an array or of another kind than B's value, the
\* recursive merge when both are non-array objects, and B's value at every key
\* absent from P.
C9_MergeResult ==
    Len(mOut) >= 1 =>
        Norm(Reify(heap, mOut[1])) =
            Norm(MergeSpec(Reify(mHeap0, mBase), Reify(mHeap0, mPartial)))

\* C9 witness: merge({colors:{primary:Blue, secondary:Blue}}, {colors:{primary:Red}})
\* has given {colors:{primary:Red, secondary:Blue}}.
C9_Witness ==
    /\ Len(mOut) >= 1
    /\ Reify(mHeap0, mBase) =
          LObj([colors |-> LObj([primary |-> LPrim(Blue), secondary |-> LPrim(Blue)])])
    /\ Reify(mHeap0, mPartial) = LObj([colors |-> LObj([primary |-> LPrim(Red)])])
    /\ Reify(heap, mOut[1]) =
          LObj([colors |-> LObj([primary |-> LPrim(Red), secondary |-> LPrim(Blue)])])

\* C10: deep-merge idempotence: deepMerge(deepMerge(T, P), P) is value-equal
\* to deepMerge(T, P).
C10_MergeIdempotent ==
    Len(mOut) = 2 => ValueEqual(heap, mOut[2], heap, mOut[1])

\* C10 witness: both merges are done, and the first one replaced an array
\* and went into a nested object.
C10_Witness ==
    /\ Len(mOut) = 2
    /\ mOut[1] # mBase
    /\ Get(mHeap0, Get(mHeap0, mBase, "colors"), "primary").t = "ref"
    /\ Get(mHeap0, Get(mHeap0, mPartial, "colors"), "primary").t = "ref"
    /\ Get(heap, mOut[1], "colors") # Get(mHeap0, mBase, "colors")

\* A plain (non-array) object.
IsPlainObject(h, v) == v.t = "ref" /\ h[v.a].kind = "obj"

\* Every leaf of pv (a value that is not a plain object) is === the value at
\* the same path of bv; a plain object without keys has no leaf.
RECURSIVE LeavesEqual(_, _, _)
LeavesEqual(h, bv, pv) ==
    IF IsPlainObject(h, pv)
    THEN \A k \in DOMAIN h[pv.a].f : LeavesEqual(h, Get(h, bv, k), h[pv.a].f[k])
    ELSE pv = bv

\* The same, where a plain object of pv must meet a plain object of bv.
RECURSIVE LeavesEqualOnObjects(_, _, _)
LeavesEqualOnObjects(h, bv, pv) ==
    \/ pv = bv
    \/ /\ IsPlainObject(h, pv)
       /\ IsPlainObject(h, bv)
       /\ \A k \in DOMAIN h[pv.a].f :
              LeavesEqualOnObjects(h, Get(h, bv, k), h[pv.a].f[k])

\* C11 as stated: whenever every leaf of partial is === the corresponding
\* leaf of base (empty nested objects included), deepMerge(base, partial)
\* returns base itself.
C11_Original ==
    (Len(mOut) >= 1 /\ LeavesEqual(mHeap0, mBase, mPartial)) => mOut[1] = mBase

\* C11: referential stability: whenever every leaf of partial is === the
\* corresponding leaf of base and every nested plain object of partial sits
\* where base has a plain object too, deepMerge(base, partial) returns base
\* itself, not a copy.
C11_ReferentialStability ==
    (Len(mOut) >= 1 /\ LeavesEqualOnObjects(mHeap0, mBase, mPartial))
        => mOut[1] = mBase

\* C11 witness: base and partial are two distinct objects whose nested
\* colors objects are distinct too and hold the same leaf; the merge gave
\* base back.
C11_Witness ==
    /\ Len(mOut) >= 1
    /\ mPartial # mBase
    /\ IsPlainObject(mHeap0, Get(mHeap0, mPartial, "colors"))
    /\ IsPlainObject(mHeap0, Get(mHeap0, mBase, "colors"))
    /\ Get(mHeap0, mPartial, "colors") # Get(mHeap0, mBase, "colors")
    /\ Get(mHeap0, Get(mHeap0, mPartial, "colors"), "primary") = Blue
    /\ LeavesEqualOnObjects(mHeap0, mBase, mPartial)
    /\ mOut[1] = mBase

\* null or undefined
IsNullish(v) == v \in {Null, Undef}

\* C12: at every key of partial, when one side is null or absent the side
\* that is present wins: a null or undefined value of partial never replaces
\* a present value of base.
C12_PresentSideWins ==
    Len(mOut) >= 1 =>
        \A key \in DOMAIN mHeap0[mPartial.a].f :
            LET pv == Get(mHeap0, mPartial, key)
                bv == Get(mHeap0, mBase, key)
                rv == Get(heap, mOut[1], key)
            IN  /\ (IsNullish(pv) /\ ~IsNullish(bv)) => rv = bv
                /\ (IsNullish(bv) /\ ~IsNullish(pv)) => rv = pv

\* C13: deepMerge mutates neither input: after the calls every object and
\* array that existed before them, base and partial and all they reach, has
\* exactly the contents it had.
C13_InputsNotMutated ==
    Len(mOut) >= 1 =>
        /\ Len(heap) >= Len(mHeap0)
        /\ \A i \in 1..Len(mHeap0) : heap[i] = mHeap0[i]
        /\ Reify(heap, mBase) = Reify(mHeap0, mBase)
        /\ Reify(heap, mPartial) = Reify(mHeap0, mPartial)

\* C13 witness: a merge that changed a key of a nested object and so built
\* a new root and a new nested object, neither of them one of the inputs'.
C13_Witness ==
    /\ Len(mOut) >= 1
    /\ mOut[1] \notin {mBase, mPartial}
    /\ IsPlainObject(mHeap0, Get(mHeap0, mBase, "colors"))
    /\ IsPlainObject(mHeap0, Get(mHeap0, mPartial, "colors"))
    /\ Get(heap, mOut[1], "colors") \notin
          {Get(mHeap0, mBase, "colors"), Get(mHeap0, mPartial, "colors")}
    /\ Get(heap, mOut[1], "colors").a > Len(mHeap0)

(***************************************************************************)
(* Claims about the theme store.                                           *)
(***************************************************************************)
\* The last setTheme call has returned.
Returned == call.pc = "idle" /\ call.returned

\* The contents at key k of contents l (undefined when there is none).
Child(l, k) == IF l.t = "obj" /\ k \in DOMAIN l.o THEN l.o[k] ELSE LPrim(Undef)

\* What an input's literal denotes, given the contents of the theme it reads.
RECURSIVE Denotes(_, _)
Denotes(lit, base) ==
    CASE lit.t = "same" -> base
      [] lit.t = "toggle" -> IF base = LPrim(Blue) THEN LPrim(Red) ELSE LPrim(Blue)
      [] lit.t = "obj" -> LObj([k \in DOMAIN lit.o |-> Denotes(lit.o[k], Child(base, k))])
      [] OTHER -> lit

\* The contents of the theme that the last call had to produce.
Merged == Norm(MergeSpec(call.pre, Denotes(call.input.lit, call.pre)))

\* C4: one setTheme call invokes each subscribed listener exactly once before
\* it returns (and no other listener), each listener reads the merged theme
\* from getTheme() when it runs, and so does the caller after the return.
C4_NotifyEachOnce ==
    Returned =>
        /\ \A l \in Listeners :
              call.count[l] = IF l \in Members(call.atEntry) THEN 1 ELSE 0
        /\ \A l \in Members(call.atEntry) :
              /\ call.seen[l] = call.ret
              /\ Norm(call.seenContent[l]) = Merged
        /\ Norm(Reify(heap, currentTheme)) = Merged

\* C4 witness: A and B were subscribed, setTheme({k:1}) has returned, and each
\* of them ran once.
C4_Witness ==
    /\ Returned
    /\ call.atEntry = <<"A", "B">>
    /\ call.input = [fn |-> FALSE, lit |-> LObj([k |-> LPrim(Num("1"))])]
    /\ call.count["A"] = 1
    /\ call.count["B"] = 1
    /\ Get(heap, currentTheme, "k") = Num("1")

\* C5: setTheme(input) calls a function input with the snapshot current at the
\* call, stores the deep merge of the previous snapshot and the partial, and
\* returns that snapshot, the one getTheme() returns right afterwards.
C5_SetThemeResult ==
    Returned =>
        /\ call.input.fn => call.arg = call.prev
        /\ call.ret = currentTheme
        /\ Norm(Reify(heap, call.ret)) = Merged

\* C5 witness: the toggling updater has turned colors.primary from blue to red.
C5_Witness ==
    /\ Returned
    /\ call.input = [fn |-> TRUE, lit |-> LObj([colors |-> LObj([primary |-> LToggle])])]
    /\ Child(Child(call.pre, "colors"), "primary") = LPrim(Blue)
    /\ Get(heap, Get(heap, call.ret, "colors"), "primary") = Red

\* Two values are plain (non-array) objects.
PlainObjects(h, a, b) ==
    a.t = "ref" /\ b.t = "ref" /\ ~IsArray(h, a) /\ ~IsArray(h, b)

\* Wherever the old and the new value have equal contents they are the same
\* reference, at this place and at every place below it.
RECURSIVE PreservedByValue(_, _, _)
PreservedByValue(h, a, b) ==
    /\ ValueEqual(h, a, h, b) => a = b
    /\ PlainObjects(h, a, b) =>
          \A k \in DOMAIN h[a.a].f \cap DOMAIN h[b.a].f :
              PreservedByValue(h, h[a.a].f[k], h[b.a].f[k])

\* The same, where the contents of an array are its identity.
RECURSIVE PreservedByIdentity(_, _, _)
PreservedByIdentity(h, a, b) ==
    /\ Norm(ReifyId(h, a)) = Norm(ReifyId(h, b)) => a = b
    /\ PlainObjects(h, a, b) =>
          \A k \in DOMAIN h[a.a].f \cap DOMAIN h[b.a].f :
              PreservedByIdentity(h, h[a.a].f[k], h[b.a].f[k])

\* C6, as claimed: a setTheme call that changes no value anywhere in the theme
\* leaves the snapshot reference-identical, and nested objects that the update
\* does not change keep their references.
C6_Original == Returned => PreservedByValue(heap, call.prev, call.ret)

\* C6, amended: the same, where an array counts as unchanged only when it is
\* the same array object: a distinct array with equal elements replaces the
\* base's array and gives a new snapshot.
C6_UnchangedKeepsReference == Returned => PreservedByIdentity(heap, call.prev, call.ret)

\* C6 witness: setTheme({colors:{primary:Blue}}) on a theme whose
\* colors.primary is Blue already has returned the previous snapshot.
C6_Witness ==
    /\ Returned
    /\ call.input = [fn |-> FALSE, lit |-> LObj([colors |-> LObj([primary |-> LPrim(Blue)])])]
    /\ Child(Child(call.pre, "colors"), "primary") = LPrim(Blue)
    /\ call.partial # call.prev
    /\ call.ret = call.prev

\* What was read during the last call is the theme before it or the theme
\* after it.
ReadsCoherent ==
    call.n > 0 =>
        /\ Norm(Reify(heap, call.arg)) = Norm(call.pre)
        /\ \A l \in Listeners :
              call.count[l] > 0 => Norm(call.seenContent[l]) \in {Norm(call.pre), Merged}

\* C7: no step changes an object that exists already (so a snapshot handed out
\* earlier keeps its contents), and every read sees the whole theme of before
\* the update or the whole theme of after it.
C7_ReplacedWholesale ==
    [][/\ \A a \in DOMAIN heap : a \in DOMAIN heap' /\ heap'[a] = heap[a]
       /\ ReadsCoherent']_vars

\* C7 witness: a call has replaced the snapshot; the previous snapshot still
\* has the contents it had, and a listener has read the new one.
C7_Witness ==
    /\ Returned
    /\ call.n = 2
    /\ call.ret # call.prev
    /\ Reify(heap, call.prev) = call.pre
    /\ Norm(Reify(heap, call.ret)) # Norm(call.pre)
    /\ call.count["A"] = 1

\* The step is the return of a setTheme call.
IsReturn == call.pc = "notify" /\ call'.pc = "idle"

\* C14: subscribe deduplicates by listener reference: during a setTheme a
\* listener subscribed once or several times is invoked exactly once, and a
\* listener that was unsubscribed (or never subscribed) is not invoked; the
\* Set holds a listener once, and only while it is subscribed.
C14_SubscribeDeduplicates ==
    [][/\ \A l \in Listeners : (l \in Members(listeners')) <=> (subs'[l] > 0)
       /\ Len(listeners') = Cardinality(Members(listeners'))
       /\ IsReturn =>
             \A l \in Listeners :
                 call'.count[l] = IF subs[l] > 0 THEN 1 ELSE 0]_vars

\* C14 witness: the second setTheme has visited every listener; A had been
\* subscribed twice and was invoked once, B had been unsubscribed and was
\* not invoked.
C14_Witness ==
    /\ call.pc = "notify"
    /\ call.n = 2
    /\ ForEachDone(call.i, listeners)
    /\ subs["A"] = 2
    /\ call.count["A"] = 1
    /\ subs["B"] = -1
    /\ call.count["B"] = 0

\* C34: every setTheme call invokes each subscribed listener exactly once,
\* also when the merge changed nothing and the stored snapshot is the very
\* reference it was before the call.
C34_NotifiesAlsoWhenUnchanged ==
    Returned =>
        /\ \A l \in Members(call.atEntry) : call.count[l] = 1
        /\ call.ret = call.prev =>
               \A l \in Members(call.atEntry) :
                   call.count[l] = 1 /\ call.seen[l] = call.prev

\* C34 witness: setTheme({}) with A and B subscribed left the snapshot
\* reference as it was, and each of them ran once.
C34_Witness ==
    /\ Returned
    /\ call.input = [fn |-> FALSE, lit |-> LObj(EmptyF)]
    /\ call.ret = call.prev
    /\ currentTheme = call.prev
    /\ Members(call.atEntry) = {"A", "B"}
    /\ call.count["A"] = 1
    /\ call.count["B"] = 1

\* The step is a call of an unsubscribe function of listener l.
IsUnsubscribe(l) == subs[l] > 0 /\ subs'[l] = -1

HadInnerCall == call.inner # NoInput

\* C36: setTheme stays atomic when its updater function or a listener calls
\* setTheme: no update is lost, the final snapshot has the changes of the
\* inner and of the outer call, and each of the two calls returns the merge
\* of its own partial with the snapshot it read at its start.
C36_ReentrantSetThemeAtomic ==
    (Returned /\ HadInnerCall) =>
        LET final == Reify(heap, currentTheme)
            outer == Denotes(call.input.lit, call.pre)
        IN  /\ Child(final, "k") = Child(call.inner.lit, "k")
            /\ Child(Child(final, "colors"), "primary")
                   = Child(Child(outer, "colors"), "primary")
            /\ Norm(Reify(heap, call.ret)) = Merged
            /\ Norm(Reify(heap, call.innerRet))
                   = Norm(MergeSpec(call.innerPre,
                                    Denotes(call.inner.lit, call.innerPre)))

\* C38: a notification pass invokes exactly the listeners that were
\* subscribed when setTheme was called, each once: not a listener that
\* another listener subscribes during the pass, and also a listener that
\* another listener unsubscribes before the pass has reached it.
C38_PassInvokesListenersAtCall ==
    (Returned /\ ~HadInnerCall) =>
        \A l \in Listeners :
            call.count[l] = IF l \in Members(call.atEntry) THEN 1 ELSE 0

(***************************************************************************)
(* Claims about the LRU cache.                                             *)
(***************************************************************************)
\* The key in the cache whose most recent use is the oldest.
LeastRecentlyUsed == SelectSeq(lruUse, LAMBDA x : x \in LRUKeys(lru))[1]

\* The step is a set of a key that is not in the cache, which is full.
IsInsertIntoFull == lruOp'.op = "set" /\ ~lruOp'.found /\ Len(lru) >= lruLimit

\* The step is a set of a key that is in the cache.
IsOverwrite == lruOp'.op = "set" /\ lruOp'.found /\ lruOp'.k \in LRUKeys(lru)

\* The value stored under key k.
LRUValue(c, k) == c[LRUIndex(c, k)].v

\* C15: LRU eviction order: a set that inserts a new key into a full cache
\* evicts exactly one entry, the one whose most recent use (a get that hit,
\* or a set) is the oldest, and keeps every other entry.
C15_EvictsLeastRecentlyUsed ==
    [][IsInsertIntoFull =>
          /\ LRUKeys(lru) \ LRUKeys(lru') = {LeastRecentlyUsed}
          /\ LRUKeys(lru') = (LRUKeys(lru) \ {LeastRecentlyUsed}) \cup {lruOp'.k}
          /\ \A k \in LRUKeys(lru) \cap LRUKeys(lru') :
                 LRUValue(lru', k) = LRUValue(lru, k)]_vars

\* C15 witness: capacity 2; a, b, c were set (a was evicted), b was read, and
\* the set of d has evicted c, not b.
C15_Witness ==
    /\ lruLimit = 2
    /\ lruUse = <<"a", "c", "b", "d">>
    /\ lruOp.op = "set"
    /\ lruOp.k = "d"
    /\ ~lruOp.found
    /\ Len(lru) = 2
    /\ lru[1].k = "b"
    /\ lru[2].k = "d"

\* C16: LRU capacity: whatever gets, sets and clears were made, the cache
\* holds at most `limit` entries, and a set of a key that is in the cache
\* evicts nothing: the keys stay, the other values stay, the key has the new
\* value.
C16_CapacityNeverExceeded ==
    [][/\ Len(lru') <= lruLimit
       /\ IsOverwrite =>
             /\ LRUKeys(lru') = LRUKeys(lru)
             /\ LRUValue(lru', lruOp'.k) = lruOp'.v
             /\ \A k \in LRUKeys(lru) \ {lruOp'.k} :
                    LRUValue(lru', k) = LRUValue(lru, k)]_vars

\* C16 witness: a full cache of capacity 2, after evictions and a clear, in
\* which the older key was overwritten with a new value.
C16_Witness ==
    /\ lruLimit = 2
    /\ Len(lru) = 2
    /\ Len(lruUse) = 4
    /\ lruOp.op = "set"
    /\ lruOp.found
    /\ lruOp.v = 2
    /\ lru[2].k = lruOp.k
    /\ lru[2].v = 2
    /\ lru[1].v = 1

(***************************************************************************)
(* Claims about the rule builder and its cache.                            *)
(***************************************************************************)
\* The props the hasher looks at.
AllowProj(p) == [i \in 1..Len(STYLE_HASH_PROPS) |-> PropGet(p, STYLE_HASH_PROPS[i])]

\* The step is a render.
IsRender == last'.n = last.n + 1

\* The context of the last render.
LastContext == [theme |-> last.theme, props |-> last.props, platform |-> platform]

\* C1: a resolution that follows a resolution with the same theme reference,
\* platform and allowlisted props returns the very result object of the first
\* one, and calls no style or condition function.
C1_SecondResolutionCached ==
    [][(/\ IsRender
        /\ last.n > 0
        /\ last'.theme = last.theme
        /\ AllowProj(last'.props) = AllowProj(last.props))
       => (/\ last'.value = last.value
           /\ last'.hit \/ last'.memoHit
           /\ last'.calls = 0
           /\ results' = results)]_vars

\* C1 witness: a builder with the theme-reading style function was resolved
\* twice; the function ran once, and the second resolution was a cache hit.
C1_Witness ==
    /\ last.n = 2
    /\ Len(rules) = 1
    /\ rules[1].kind = "style"
    /\ rules[1].style.fn
    /\ ~last.appended
    /\ Len(results) = 1
    /\ last.hit
    /\ last.value = 1
    /\ last.calls = 0

\* C2: with a rule list that did not change after the first render, what a
\* render obtains, from the cache or freshly computed, equals the uncached
\* resolution of the rules against that render's own context.
C2_CacheTransparent ==
    (last.n > 0 /\ ~last.appended) =>
        LET fresh == ResolveRules(rules, heap, LastContext)
        IN  results[last.value] =
                [computedStyle |-> fresh.computedStyle, attrs |-> fresh.attrs]

\* C3: the first resolution after a setTheme call that changed the value a
\* style function reads is a cache miss under the new theme reference, and
\* its style is the one computed from the new theme.
C3_ThemeChangeMisses ==
    [][(/\ IsRender
        /\ call.n > last.callN
        /\ ThemedValue(heap, call.prev) # ThemedValue(heap, currentTheme))
       => (/\ ~last'.hit
           /\ ~last'.memoHit
           /\ last'.theme = currentTheme
           /\ last'.theme # last.theme
           /\ results'[last'.value].computedStyle =
                 ResolveRules(rules, heap,
                     [theme |-> currentTheme, props |-> last'.props,
                      platform |-> platform]).computedStyle)]_vars

\* C3 witness: the themed style was resolved before and after
\* setTheme({colors:{primary:'#007AFF'}}) with the same context hash; the
\* second resolution missed and its color is the new one.
C3_Witness ==
    /\ last.n = 2
    /\ Len(rules) = 1
    /\ rules[1].kind = "style"
    /\ rules[1].style.fn
    /\ ~last.appended
    /\ last.callN = 1
    /\ ~last.hit
    /\ last.value = 2
    /\ results[1].computedStyle = [color |-> Undef]
    /\ results[2].computedStyle = [color |-> Blue]
    /\ Cardinality(DOMAIN cacheByTheme) = 2
    /\ \A key \in DOMAIN cacheByTheme : LRUIndex(cacheByTheme[key], last.hash) = 1

(***************************************************************************)
(* Claims about the resolution of a rule list.                             *)
(***************************************************************************)
\* The one render went through the rule loop to its end.
Resolved == last.n = 1 /\ ~last.hit /\ ~last.memoHit /\ ~last.threw

\* The places of the rules of one kind, in insertion order.
RulesOfKind(rs, kind) ==
    SelectSeq([j \in 1..Len(rs) |-> j], LAMBDA j : rs[j].kind = kind)

\* The resolved style rules, in insertion order.
ExpectedStyles(rs, h, ctx) ==
    LET at == RulesOfKind(rs, "style")
    IN  [j \in 1..Len(at) |-> ResolveStyle(rs[at[j]].style, h, ctx)]

\* Rule j gives the attribute key k: an attrs rule, or a triggered when rule.
Contributes(rs, j, k, h, ctx) ==
    /\ k \in DOMAIN rs[j].attrs
    /\ \/ rs[j].kind = "attrs"
       \/ rs[j].kind = "when" /\ EvaluateCondition(rs[j].cond, h, ctx)

\* For every key, the value of the last rule that gives it.
ExpectedAttrs(rs, h, ctx) ==
    LET keys == UNION {DOMAIN rs[j].attrs : j \in 1..Len(rs)}
        given(k) == {j \in 1..Len(rs) : Contributes(rs, j, k, h, ctx)}
        lastOf(k) == CHOOSE j \in given(k) : \A m \in given(k) : m <= j
    IN  [k \in {x \in keys : given(x) # {}} |-> rs[lastOf(k)].attrs[k]]

\* For every style key, the value of the last style in the list that has it.
ExpectedFlat(styles) ==
    LET keys == UNION {DOMAIN styles[j] : j \in 1..Len(styles)}
        having(k) == {j \in 1..Len(styles) : k \in DOMAIN styles[j]}
        lastOf(k) == CHOOSE j \in having(k) : \A m \in having(k) : m <= j
    IN  [k \in keys |-> styles[lastOf(k)][k]]

\* C17: rule order is resolution order: on a cache miss the style list holds
\* the resolved style rules in insertion order, and every attribute key has
\* the value of the last rule, an attrs rule or a triggered when rule, that
\* gives this key.
C17_RuleOrderIsResolutionOrder ==
    (Resolved /\ \A j \in 1..Len(rules) : ~IsFunction(rules[j].attrs)) =>
        /\ last.styles = ExpectedStyles(rules, heap, LastContext)
        /\ results[last.value].computedStyle = ExpectedFlat(last.styles)
        /\ results[last.value].attrs = ExpectedAttrs(rules, heap, LastContext)

\* C17 witness: [attrs({ testID: 'base' }), when('size:1', { testID: 'one' })]
\* resolved with size '1': the later, triggered rule gave testID.
C17_Witness ==
    /\ Resolved
    /\ Len(rules) = 2
    /\ rules[1].kind = "attrs"
    /\ rules[1].attrs = [testID |-> Str("base")]
    /\ rules[2].kind = "when"
    /\ last.conds = <<TRUE>>
    /\ results[last.value].attrs = [testID |-> Str("one")]

\* The rule list [style({ color: 'red' }), when('active', { color: 'blue' })].
IsRedThenActiveBlue ==
    /\ Len(rules) = 2
    /\ rules[1].kind = "style"
    /\ ~rules[1].style.fn
    /\ rules[2].kind = "when"
    /\ rules[2].cond.segs = <<"active">>
    /\ rules[2].attrs = [color |-> Str("blue")]

\* C18: [style({ color: 'red' }), when('active', { color: 'blue' })] rendered
\* with active = true: the triggered when rule overrides the style rule's
\* color, so the element is styled with color 'blue'.
C18_WhenOverridesStyle ==
    (Resolved /\ IsRedThenActiveBlue /\ Truthy(PropGet(last.props, "active")))
        => ExpectedFlat(ElementStyle(results[last.value], last.props)).color
               = Str("blue")

\* A condition as the specification words it, for a function or a string.
ConditionMeaning(cond, h, ctx) ==
    IF cond.fn THEN CallCondition(cond.name, h, ctx)
    ELSE IF cond.segs \in {<<"ios">>, <<"android">>, <<"web">>}
         THEN ctx.platform = cond.segs[1]
    ELSE IF Len(cond.segs) = 2
         THEN /\ cond.segs[1] \in DOMAIN ctx.props
              /\ ctx.props[cond.segs[1]] = Str(cond.segs[2])
    ELSE /\ cond.segs[1] \in DOMAIN ctx.props
         /\ Truthy(ctx.props[cond.segs[1]])

\* The examples: 'variant:primary' with variant 'primary' and 'secondary',
\* 'disabled' with disabled = true, 'ios' on android.
ConditionExamples ==
    /\ Len(rules) = 1 =>
        /\ (rules[1].cond.segs = <<"variant", "primary">>
               /\ last.props = [variant |-> Str("primary")]) => last.conds = <<TRUE>>
        /\ (rules[1].cond.segs = <<"variant", "primary">>
               /\ last.props = [variant |-> Str("secondary")]) => last.conds = <<FALSE>>
        /\ (rules[1].cond.segs = <<"disabled">>
               /\ last.props = [disabled |-> Bool("true")]) => last.conds = <<TRUE>>
        /\ (rules[1].cond.segs = <<"ios">> /\ platform = "android")
               => last.conds = <<FALSE>>

IsBooleanCondition(cond) == ~cond.fn /\ cond.segs = <<>> /\ cond.name \in {"true", "false"}

\* C20: a boolean condition is returned as it is: when(true, attrs) always
\* gives attrs, when(false, attrs) never does, and the evaluation raises no
\* error.
C20_BooleanReturnedAsIs ==
    (last.n = 1 /\ Len(rules) = 1 /\ rules[1].kind = "when"
         /\ IsBooleanCondition(rules[1].cond))
        => /\ ~last.threw
           /\ last.conds = <<rules[1].cond.name = "true">>
           /\ last.value > 0
           /\ results[last.value].attrs =
                  IF rules[1].cond.name = "true" THEN rules[1].attrs ELSE EmptyF

\* The condition is a string with more than one ':'.
IsMalformed(cond) == ~cond.fn /\ Len(cond.segs) > 2

\* C31: a condition string with more than one ':', such as 'a:b:c', raises no
\* error and is true iff the prop whose name is the whole string is truthy, so
\* it is false whenever the props have no key with that exact name.
C31_MalformedIsWholeStringTruthiness ==
    last.n = 1 =>
        LET at == RulesOfKind(rules, "when")
        IN  /\ (\A j \in 1..Len(at) : IsMalformed(rules[at[j]].cond)) => ~last.threw
            /\ Resolved =>
                   \A j \in 1..Len(at) :
                       IsMalformed(rules[at[j]].cond) =>
                           /\ last.conds[j] =
                                  Truthy(PropGet(last.props, Join(rules[at[j]].cond.segs)))
                           /\ Join(rules[at[j]].cond.segs) \notin DOMAIN last.props
                                  => ~last.conds[j]

\* The condition is a string 'key:value'.
IsKeyValue(cond) == ~cond.fn /\ Len(cond.segs) = 2

\* The value is the string s, and nothing that merely prints as s.
IsTheString(val, s) == val.t = "str" /\ val.v = s

\* C32: 'key:value' compares props[key] to the string value strictly, without
\* coercion: 'disabled:true' is false with { disabled: true }, 'size:1' is
\* false with { size: 1 } and true with { size: '1' }.
C32_KeyValueIsStrict ==
    Resolved =>
        LET at == RulesOfKind(rules, "when")
            cond(j) == rules[at[j]].cond
        IN  \A j \in 1..Len(at) :
                /\ IsKeyValue(cond(j)) =>
                       last.conds[j] =
                           IsTheString(PropGet(last.props, cond(j).segs[1]),
                                       cond(j).segs[2])
                /\ (cond(j).segs = <<"disabled", "true">>
                       /\ last.props = [disabled |-> Bool("true")]) => ~last.conds[j]
                /\ (cond(j).segs = <<"size", "1">>
                       /\ last.props = [size |-> Num("1")]) => ~last.conds[j]
                /\ (cond(j).segs = <<"size", "1">>
                       /\ last.props = [size |-> Str("1")]) => last.conds[j]

\* C32 witness: when('disabled:true', { testID: 'dt' }) rendered with
\* { disabled: true }: the condition is false and nothing is merged.
C32_Witness ==
    /\ Resolved
    /\ Len(rules) = 1
    /\ rules[1].kind = "when"
    /\ rules[1].cond.segs = <<"disabled", "true">>
    /\ PropGet(last.props, "disabled") = Bool("true")
    /\ last.conds = <<FALSE>>
    /\ results[last.value].attrs = EmptyF

\* What the rules give when each is evaluated against the context ctx:
\* the conditions' values, the styles, and the attributes key by key.
AgainstOneContext(rs, h, ctx) ==
    LET at == RulesOfKind(rs, "when")
        st == RulesOfKind(rs, "style")
        on(j) == IF rs[j].cond.segs = <<>> /\ ~rs[j].cond.fn
                 THEN rs[j].cond.name = "true"
                 ELSE ConditionMeaning(rs[j].cond, h, ctx)
        payload(j) == IF IsFunction(rs[j].attrs) THEN CallAttrs(rs[j].attrs, ctx)
                      ELSE rs[j].attrs
        given(k) == {j \in 1..Len(rs) :
                        /\ k \in DOMAIN payload(j)
                        /\ rs[j].kind = "attrs" \/ (rs[j].kind = "when" /\ on(j))}
        keys == {k \in UNION {DOMAIN payload(j) : j \in 1..Len(rs)} : given(k) # {}}
    IN  [conds |-> [j \in 1..Len(at) |-> on(at[j])],
         styles |-> [j \in 1..Len(st) |-> ResolveStyle(rs[st[j]].style, h, ctx)],
         attrs |-> [k \in keys |->
                       payload(CHOOSE j \in given(k) : \A m \in given(k) : m <= j)[k]]]

\* No condition of the rule list is a string with more than one ':'.
WellFormed(rs) == \A j \in 1..Len(rs) : ~IsMalformed(rs[j].cond)

\* C33: within one resolution every condition, style function and payload
\* function is evaluated against the one context { theme, props, platform } of
\* the render, the one that is hashed: the attributes merged by earlier rules
\* do not change what a later rule sees.
C33_OneContextPerResolution ==
    (last.n = 1 /\ WellFormed(rules)) =>
        LET one == AgainstOneContext(rules, heap, LastContext)
        IN  /\ last.hash = OptimizedHash(heap, LastContext)
            /\ last.conds = one.conds
            /\ last.styles = one.styles
            /\ results[last.value].attrs = one.attrs

(***************************************************************************)
(* Claims about the element a render creates.                              *)
(***************************************************************************)
\* The one render obtained a result, and the element was created.
Created == last.n = 1 /\ ~last.threw

\* The element's props besides style and ref.
PlainKeys(f) == DOMAIN f \ {"style", "ref"}

\* C22: the element has the rule-derived attrs and the props passed directly,
\* and for every key other than style and ref a directly passed prop
\* overrides the rule-derived attr; its style is [computedStyle, direct style]
\* when a style object is passed and computedStyle alone when none is.
C22_DirectPropsOverrideAttrs ==
    Created =>
        LET r == results[last.value]
            p == last.props
            el == ElementProps(r, p)
            st == ElementStyle(r, p)
        IN  /\ PlainKeys(el) = PlainKeys(p) \cup PlainKeys(r.attrs)
            /\ \A k \in PlainKeys(p) : el[k] = p[k]
            /\ \A k \in PlainKeys(r.attrs) \ PlainKeys(p) : el[k] = r.attrs[k]
            /\ PropGet(p, "style").t = "ref" => st = <<r.computedStyle, p["style"]>>
            /\ "style" \notin DOMAIN p => st = <<r.computedStyle>>
            /\ st \in {<<r.computedStyle>>, <<r.computedStyle, PropGet(p, "style")>>}

\* C22 witness: [attrs({ testID: 'base' })] rendered with
\* { active: true, testID: 'direct' }: the element's testID is 'direct'.
C22_Witness ==
    /\ Created
    /\ Len(rules) = 1
    /\ rules[1].kind = "attrs"
    /\ PropGet(results[last.value].attrs, "testID") = Str("base")
    /\ PropGet(last.props, "testID") = Str("direct")
    /\ ElementProps(results[last.value], last.props)["testID"] = Str("direct")
    /\ ElementStyle(results[last.value], last.props) = <<EmptyF>>

\* C37: a style among the rule-derived attrs never reaches the primitive: the
\* element's style is computedStyle alone, or [computedStyle, direct style]
\* when a style is passed directly, whatever the attrs hold.
C37_AttrsStyleNeverReachesPrimitive ==
    Created =>
        LET r == results[last.value]
            el == CreateElement(r, last.props, ResolvedRef(rules, ForwardedRef))
        IN  /\ Len(el.style) \in {1, 2}
            /\ el.style[1] = r.computedStyle
            /\ Len(el.style) = 2 =>
                   /\ "style" \in DOMAIN last.props
                   /\ el.style[2] = last.props["style"]
            /\ \A i \in 1..Len(el.style) : el.style[i] # RuleStyle
            /\ "style" \notin DOMAIN el.props

\* C37 witness: [style({ color: 'red' }), when('active', { style: ruleStyle })]
\* rendered with { active: true, style: directStyle }: the attrs hold the
\* rule's style, the element has [{ color: 'red' }, directStyle].
C37_Witness ==
    /\ Created
    /\ Len(rules) = 2
    /\ rules[2].kind = "when"
    /\ last.conds = <<TRUE>>
    /\ PropGet(results[last.value].attrs, "style") = RuleStyle
    /\ PropGet(last.props, "style") = DirectStyle
    /\ results[last.value].computedStyle = [color |-> Str("red")]
    /\ CreateElement(results[last.value], last.props, ForwardedRef).style
           = <<[color |-> Str("red")], DirectStyle>>

\* The conditional rules with a ref in their attrs whose condition is true.
TriggeredRefs(rs, h, ctx) ==
    {j \in 1..Len(rs) :
        /\ rs[j].kind = "when"
        /\ ~ConditionThrows(rs[j].cond)
        /\ Truthy(PropGet(rs[j].attrs, "ref"))
        /\ EvaluateCondition(rs[j].cond, h, ctx)}

\* C23: the element's ref is the forwarded ref unless a conditional rule whose
\* condition is true carries a ref, and then it is the ref of the last such
\* rule in rule order; a rule whose condition is false does not change it.
C23_RefOfLastTriggeredRule ==
    Created =>
        LET on == TriggeredRefs(rules, heap, LastContext)
        IN  \A ref \in {Null, ForwardedRef} :
                ResolvedRef(rules, ref) =
                    IF on = {} THEN ref
                    ELSE rules[CHOOSE j \in on : \A m \in on : m <= j].attrs["ref"]

\* The rule list where every payload function is replaced by the object it
\* returns for the context.
Called(rs, ctx) ==
    [j \in 1..Len(rs) |->
        IF IsFunction(rs[j].attrs)
        THEN [rs[j] EXCEPT !.attrs = CallAttrs(rs[j].attrs, ctx)]
        ELSE rs[j]]

\* C28: a payload function of a triggered conditional rule is called with the
\* context, and what it returns is merged as a literal payload with the same
\* keys would be.
C28_PayloadFunctionCalled ==
    Resolved =>
        results[last.value].attrs =
            ExpectedAttrs(Called(rules, LastContext), heap, LastContext)

(***************************************************************************)
(* Claims about the context hash and the cache of one builder.             *)
(***************************************************************************)
\* The allowlisted props with a string, number or boolean value.
PrimProj(p) ==
    [i \in 1..Len(STYLE_HASH_PROPS) |->
        IF PropGet(p, STYLE_HASH_PROPS[i]).t \in {"str", "num", "bool"}
        THEN PropGet(p, STYLE_HASH_PROPS[i]) ELSE Undef]

\* C24: the hash depends only on the platform, the theme's identity token and
\* the primitive-valued allowlisted props: a render whose context differs from
\* the previous one's only in other props, or in allowlisted props without a
\* primitive value, has the same hash and obtains the cached result.
C24_HashIgnoresOtherProps ==
    [][(/\ IsRender
        /\ last.n > 0
        /\ last'.theme = last.theme
        /\ PrimProj(last'.props) = PrimProj(last.props))
       => (/\ last'.hash = last.hash
           /\ last'.hit \/ last'.memoHit
           /\ last'.value = last.value
           /\ results' = results)]_vars

\* C24 witness: the second render had { size: 1, active: null }; it obtained
\* the entry stored under the hash of the first, which has no active in it.
C24_Witness ==
    /\ last.n = 2
    /\ last.props = [size |-> Num("1"), active |-> Null]
    /\ last.hit
    /\ Len(results) = 1
    /\ last.value = 1
    /\ last.hash = platform \o "-theme|size:1"

(***************************************************************************)
(* Claims about builders, their proxies and their caches.                  *)
(***************************************************************************)
\* The last render.
LastRender == renders[Len(renders)]

\* The step is a call through a proxy that made a new proxy.
IsProxyCall(ops) == Len(components') = Len(components) + 1 /\ proxyOp'.op \in ops

\* The step is a render of a component.
IsShow == Len(renders') = Len(renders) + 1

\* The elements of a sequence.
Range(q) == {q[i] : i \in DOMAIN q}

\* What a render of builder x with props p obtains in a state with the
\* builders bs and the result objects mk: the cached result if there is one
\* for the context, and the resolution of the rules of x otherwise.
WouldObtain(bs, mk, x, p) ==
    LET ctx == [theme |-> currentTheme, props |-> p, platform |-> platform]
        key == PartitionKey(currentTheme)
        byTheme == bs[x].cacheByTheme
        cache == IF key \in DOMAIN byTheme THEN byTheme[key] ELSE <<>>
        got == LRUGet(cache, OptimizedHash(heap, ctx))
        fresh == ResolveRules(bs[x].rules, heap, ctx)
    IN  IF got.found
        THEN [computedStyle |-> mk[got.v].computedStyle, attrs |-> mk[got.v].attrs]
        ELSE [computedStyle |-> fresh.computedStyle, attrs |-> fresh.attrs]

\* C21: extend() makes a new builder with a copy of the rules of the builder
\* it is called on and an empty cache of its own, and from then on a call on
\* one builder (style, when, attrs, extend, build, or a render of one of its
\* components) leaves the rule list of every other builder, and what a render
\* of it obtains, unchanged.
C21_ExtendIndependence ==
    [][/\ IsProxyCall({"extend"}) =>
            LET b == proxyOp'.builder
                n == Len(builders')
            IN  /\ n = Len(builders) + 1
                /\ builders'[n].rules = builders[b].rules
                /\ builders'[n].cacheByTheme = EmptyF
                /\ components'[Len(components')].builder = n
                /\ builders'[b] = builders[b]
       /\ (IsShow \/ IsProxyCall({"style", "when", "attrs", "extend", "build"})) =>
            \A x \in DOMAIN builders \ {proxyOp'.builder} :
                /\ builders'[x].rules = builders[x].rules
                /\ \A p \in ProxyProps :
                      WouldObtain(builders', made', x, p) =
                          WouldObtain(builders, made, x, p)]_vars

\* C21 witness: b2 = b1.extend(), b2.style({ color: 'red' }), and then b1 was
\* rendered: its style has no color.
C21_Witness ==
    /\ Len(builders) = 2
    /\ builders[1].rules = <<>>
    /\ Len(builders[2].rules) = 1
    /\ builders[2].rules[1].kind = "style"
    /\ proxyOp.op = "render"
    /\ proxyOp.builder = 1
    /\ ~LastRender.hit
    /\ made[LastRender.value].computedStyle = EmptyF

\* C26: the rule list of a builder is fixed once build() was called on it, so
\* the result a render takes from the cache was computed from the rule list
\* the builder has at this render.
C26_CachedForSameRules ==
    (proxyOp.op = "render" /\ LastRender.hit) =>
        made[LastRender.value].rules = builders[LastRender.builder].rules

\* C27: build() called again on a builder makes one more component on the
\* same builder, with the same rule list and the same cache: a render of any
\* component of the builder is a cache hit when the cache holds a result
\* stored for its theme reference and hash, by a render of whichever component.
C27_WrappersShareCache ==
    [][/\ IsProxyCall({"build"}) =>
            /\ components'[Len(components')].builder = proxyOp'.builder
            /\ builders' = builders
       /\ IsShow =>
            LET r == renders'[Len(renders')]
                b == components[r.comp].builder
                key == PartitionKey(r.theme)
                kept == IF key \in DOMAIN builders[b].cacheByTheme
                        THEN {e.v : e \in Range(builders[b].cacheByTheme[key])}
                        ELSE {}
                stored == {i \in kept :
                              /\ made[i].builder = b
                              /\ made[i].theme = r.theme
                              /\ made[i].hash = r.hash}
            IN  stored # {} => (r.hit /\ r.value \in stored /\ made' = made)]_vars

\* C27 witness: build() was called again on the builder, and the render of
\* one component obtained the result a render of another component stored.
C27_Witness ==
    /\ Len(renders) = 2
    /\ Len(builders) = 1
    /\ proxyOp.op = "render"
    /\ LastRender.hit
    /\ made[LastRender.value].comp # LastRender.comp
    /\ made[LastRender.value].rules = builders[1].rules

\* C29: a result stored while rendering under one theme reference is never
\* obtained by a render under another theme reference, whatever the hashes.
C29_PartitionsIsolated ==
    \A i \in DOMAIN renders :
        renders[i].hit => made[renders[i].value].theme = renders[i].theme

\* C29 witness: two renders of one builder with the same hash string, before
\* and after a theme update: the second missed and stored a result of its own.
C29_Witness ==
    /\ Len(renders) = 2
    /\ ~renders[2].hit
    /\ Len(made) = 2
    /\ made[1].hash = made[2].hash
    /\ made[1].builder = made[2].builder
    /\ made[1].theme # made[2].theme

\* C30: style(), when() and attrs() append one rule of their kind at the end
\* of the rule list of the builder they are called on and leave the rules
\* before it where they were; the proxy returned is on that same builder, and
\* no builder is made.
C30_PushAppendsOneRule ==
    [][IsProxyCall({"style", "when", "attrs"}) =>
          LET b == proxyOp'.builder
              old == builders[b].rules
              new == builders'[b].rules
          IN  /\ Len(new) = Len(old) + 1
              /\ SubSeq(new, 1, Len(old)) = old
              /\ new[Len(new)].kind = proxyOp'.op
              /\ Len(builders') = Len(builders)
              /\ components'[Len(components')].builder = b
              /\ SubSeq(components', 1, Len(components)) = components]_vars

\* C30 witness: stylized(View).style(...).when(...): one builder, whose rule
\* list is the style rule and then the when rule, behind three proxies.
C30_Witness ==
    /\ Len(builders) = 1
    /\ Len(builders[1].rules) = 2
    /\ builders[1].rules[1].kind = "style"
    /\ builders[1].rules[2].kind = "when"
    /\ proxyOp.op = "when"
    /\ Len(components) = 3
    /\ \A c \in DOMAIN components : components[c].builder = 1

\* The renders before the last one of the step that had its builder, theme
\* reference and hash.
Before(r) ==
    {i \in DOMAIN renders :
        /\ renders[i].builder = r.builder
        /\ renders[i].theme = r.theme
        /\ renders[i].hash = r.hash}

\* The other hashes rendered with this builder and theme after render i.
OthersSince(i, r) ==
    {renders[j].hash : j \in {x \in (i + 1)..Len(renders) :
                                 /\ renders[x].builder = r.builder
                                 /\ renders[x].theme = r.theme}} \ {r.hash}

\* C25 as stated: the rules are resolved at most once for each hash under a
\* theme reference; every later render with that hash and theme is a hit.
C25_Original ==
    [][IsShow =>
          LET r == renders'[Len(renders')]
          IN  Before(r) # {} => (r.hit /\ made' = made)]_vars

\* C25: the same, as long as the entry was not evicted: a render is a cache
\* hit, and resolves no rule, when its hash was rendered before with the same
\* builder and theme reference and fewer than 300 other distinct hashes were
\* rendered with them since the last time.
C25_AtMostOnceUntilEvicted ==
    [][IsShow =>
          LET r == renders'[Len(renders')]
              seen == Before(r)
              lastSeen == CHOOSE i \in seen : \A j \in seen : j <= i
          IN  (seen # {} /\ Cardinality(OthersSince(lastSeen, r)) < LRULimit)
                  => (r.hit /\ made' = made)]_vars

\* C25 witness: after more than 300 contexts, item 2 was rendered again and
\* its result came from the cache: it was resolved once.
C25_Witness ==
    /\ Contexts > LRULimit
    /\ proxyOp.op = "render"
    /\ LastRender.hit
    /\ LastRender.hash = "ios-theme|size:2"
    /\ Cardinality({i \in DOMAIN made : made[i].hash = LastRender.hash}) = 1

====
